---- MODULE Spec2Model ----
(***************************************************************************)
(* A model of the MuON codec of muon-rs: the line tokenizer and the        *)
(* definition resolver (lines.rs), the branch-stack deserializer (de.rs)   *)
(* and the serializer (ser.rs).  Text is a sequence of one-character       *)
(* strings; Rust's Option is a sequence of length 0 (None) or 1 (Some).    *)
(***************************************************************************)
EXTENDS Integers, Sequences, FiniteSets, TLC

None == <<>>

Some(x) == <<x>>

IsSome(o) == Len(o) > 0

IsNone(o) == Len(o) = 0

Unwrap(o) == o[1]

\* a string literal as text
Chars(s) == [i \in 1..Len(s) |-> SubSeq(s, i, i)]

\* The({body : x \in {e}}) is body with x bound to the value of e
The(S) == CHOOSE x \in S : TRUE

Min(a, b) == IF a < b THEN a ELSE b

Max(a, b) == IF a < b THEN b ELSE a

\* s[from..] with a 0-based offset, as Rust's &s[from..]
Skip(s, from) == SubSeq(s, from + 1, Len(s))

\* s[..to] with a 0-based offset, as Rust's &s[..to]
Take(s, to) == SubSeq(s, 1, to)

\* position (1-based) of the first c in s, 0 when there is none (str::find)
RECURSIVE FindFrom(_, _, _)
FindFrom(s, c, i) ==
    IF i > Len(s) THEN 0
    ELSE IF s[i] = c THEN i
    ELSE FindFrom(s, c, i + 1)

Find(s, c) == FindFrom(s, c, 1)

\* number of leading spaces: chars().take_while(|c| *c == ' ').count()
RECURSIVE LeadingSpaces(_)
LeadingSpaces(s) ==
    IF Len(s) > 0 /\ s[1] = " " THEN 1 + LeadingSpaces(Tail(s)) ELSE 0

AllSpaces(s) == \A i \in 1..Len(s) : s[i] = " "

Spaces(n) == [i \in 1..n |-> " "]

(***************************************************************************)
(* common.rs                                                               *)
(***************************************************************************)

\* Separator::as_str
as_str(separator) ==
    CASE separator = "Normal" -> <<":", " ">>
      [] separator = "TextAppend" -> <<":", ">">>
      [] separator = "TextValue" -> <<":", "=">>

\* Define::new
Define(indent, key, separator, value) ==
    [indent |-> indent, key |-> key, separator |-> separator, value |-> value]

\* a Define::split_list that leaves the value whole
split_list_whole(d) == <<d, None>>

\* Define::split_list: splitn(2, ' ') of the value
split_list(d) ==
    LET p == Find(d.value, " ")
    IN  IF p = 0
        THEN <<d, None>>
        ELSE <<Define(d.indent, d.key, d.separator, Take(d.value, p - 1)),
               Some(Define(d.indent, d.key, d.separator, Skip(d.value, p)))>>

\* Define::check_indent
check_indent_define(d, indent) == indent = d.indent + 1

(***************************************************************************)
(* lines.rs: the line tokenizer                                            *)
(***************************************************************************)

St(s, b, off, sep, err) == [s |-> s, b |-> b, off |-> off, sep |-> sep, err |-> err]

StError(e) == St("Error", FALSE, 0, "Normal", e)

StStart == St("Start", FALSE, 0, "Normal", "none")

StComment == St("Comment", FALSE, 0, "Normal", "none")

StKeyNotQuoted == St("KeyNotQuoted", FALSE, 0, "Normal", "none")

StKeyQuotedEven(b) == St("KeyQuotedEven", b, 0, "Normal", "none")

StKeyQuotedOdd(b) == St("KeyQuotedOdd", b, 0, "Normal", "none")

StKeyColon(off) == St("KeyColon", FALSE, off, "Normal", "none")

StDefDone(off, sep) == St("DefDone", FALSE, off, sep, "none")

\* a State::parse_char that lets a ':' close a quoted key of two quotes only
parse_char_blank(state, offset, c) ==
    CASE state.s = "Start" ->
           (CASE c = " " -> StStart
              [] c = "#" -> StComment
              [] c = ":" /\ offset > 0 -> StKeyColon(offset)
              [] c = ":" /\ offset = 0 -> StError("MissingKey")
              [] c = "\"" -> StKeyQuotedOdd(FALSE)
              [] OTHER -> StKeyNotQuoted)
      [] state.s = "KeyNotQuoted" ->
           (IF c = ":" THEN StKeyColon(offset) ELSE StKeyNotQuoted)
      [] state.s = "KeyQuotedOdd" ->
           (IF c = "\"" THEN StKeyQuotedEven(state.b) ELSE StKeyQuotedOdd(TRUE))
      [] state.s = "KeyQuotedEven" ->
           (CASE c = "\"" -> StKeyQuotedOdd(TRUE)
              [] c = ":" -> StKeyColon(offset)
              [] OTHER -> StError("InvalidSeparator"))
      [] state.s = "KeyColon" ->
           (CASE c = " " -> StDefDone(state.off, "Normal")
              [] c = ">" -> StDefDone(state.off, "TextAppend")
              [] c = "=" -> StDefDone(state.off, "TextValue")
              [] OTHER -> StError("InvalidSeparator"))
      [] OTHER -> state

\* a State::parse_char that takes ":>" for TextValue and ":=" for TextAppend
parse_char_swapped(state, offset, c) ==
    CASE state.s = "Start" ->
           (CASE c = " " -> StStart
              [] c = "#" -> StComment
              [] c = ":" /\ offset > 0 -> StKeyColon(offset)
              [] c = ":" /\ offset = 0 -> StError("MissingKey")
              [] c = "\"" -> StKeyQuotedOdd(FALSE)
              [] OTHER -> StKeyNotQuoted)
      [] state.s = "KeyNotQuoted" ->
           (IF c = ":" THEN StKeyColon(offset) ELSE StKeyNotQuoted)
      [] state.s = "KeyQuotedOdd" ->
           (IF c = "\"" THEN StKeyQuotedEven(state.b) ELSE StKeyQuotedOdd(TRUE))
      [] state.s = "KeyQuotedEven" ->
           (CASE c = "\"" -> StKeyQuotedOdd(TRUE)
              [] c = ":" /\ state.b -> StKeyColon(offset)
              [] OTHER -> StError("InvalidSeparator"))
      [] state.s = "KeyColon" ->
           (CASE c = " " -> StDefDone(state.off, "Normal")
              [] c = ">" -> StDefDone(state.off, "TextValue")
              [] c = "=" -> StDefDone(state.off, "TextAppend")
              [] OTHER -> StError("InvalidSeparator"))
      [] OTHER -> state

\* State::parse_char
parse_char(state, offset, c) ==
    CASE state.s = "Start" ->
           (CASE c = " " -> StStart
              [] c = "#" -> StComment
              [] c = ":" /\ offset > 0 -> StKeyColon(offset)
              [] c = ":" /\ offset = 0 -> StError("MissingKey")
              [] c = "\"" -> StKeyQuotedOdd(FALSE)
              [] OTHER -> StKeyNotQuoted)
      [] state.s = "KeyNotQuoted" ->
           (IF c = ":" THEN StKeyColon(offset) ELSE StKeyNotQuoted)
      [] state.s = "KeyQuotedOdd" ->
           (IF c = "\"" THEN StKeyQuotedEven(state.b) ELSE StKeyQuotedOdd(TRUE))
      [] state.s = "KeyQuotedEven" ->
           (CASE c = "\"" -> StKeyQuotedOdd(TRUE)
              [] c = ":" /\ state.b -> StKeyColon(offset)
              [] OTHER -> StError("InvalidSeparator"))
      [] state.s = "KeyColon" ->
           (CASE c = " " -> StDefDone(state.off, "Normal")
              [] c = ">" -> StDefDone(state.off, "TextAppend")
              [] c = "=" -> StDefDone(state.off, "TextValue")
              [] OTHER -> StError("InvalidSeparator"))
      [] OTHER -> state

\* State::is_done
is_done(state) == state.s \in {"Error", "Comment", "DefDone"}

LineOk(t, key, sep, value) ==
    [ok |-> TRUE, t |-> t, key |-> key, sep |-> sep, value |-> value, err |-> "none"]

LineErr(e) ==
    [ok |-> FALSE, t |-> "Error", key |-> <<>>, sep |-> "Normal", value |-> <<>>, err |-> e]

\* State::to_line
to_line(state, line) ==
    CASE state.s = "Comment" -> LineOk("Comment", <<>>, "Normal", line)
      [] state.s = "DefDone" ->
           LET key == Take(line, state.off)
               value == Skip(line, state.off)
               v == Min(Len(value), Len(as_str(state.sep)))
           IN  LineOk("Definition", key, state.sep, Skip(value, v))
      [] state.s = "Error" -> LineErr(state.err)
      [] OTHER -> LineErr("MissingSeparator")

RECURSIVE LineScan(_, _, _)

\* a Line::new that converts the state the last character left
LineScan_strict(state, line, i) ==
    IF i > Len(line)
    THEN to_line(state, line)
    ELSE The({IF is_done(next) THEN to_line(next, line)
              ELSE LineScan(next, line, i + 1) :
              next \in {parse_char(state, i - 1, line[i])}})

\* the character loop of Line::new, from the character at 1-based index i
LineScan(state, line, i) ==
    IF i > Len(line)
    THEN to_line(parse_char(state, Len(line), " "), line)
    ELSE The({IF is_done(next) THEN to_line(next, line)
              ELSE LineScan(next, line, i + 1) :
              next \in {parse_char(state, i - 1, line[i])}})

\* Line::new
Line_new(line) ==
    IF Len(line) = 0 THEN LineOk("Blank", <<>>, "Normal", <<>>)
    ELSE IF line = <<":", ":", ":">> THEN LineOk("SchemaSeparator", <<>>, "Normal", <<>>)
    ELSE LineScan(StStart, line, 1)

\* LineIter::new
LineIter_new(input) == [input |-> input, error |-> "none"]

\* a LineIter::next that drops the text it finds no linefeed in
LineIter_next_drain(li) ==
    IF Find(li.input, "\n") > 0
    THEN The({IF r.ok
              THEN <<[input |-> Skip(li.input, Find(li.input, "\n")), error |-> "none"], Some(r)>>
              ELSE <<[input |-> Skip(li.input, Find(li.input, "\n")), error |-> r.err], None>> :
              r \in {Line_new(Take(li.input, Find(li.input, "\n") - 1))}})
    ELSE IF Len(li.input) > 0
    THEN <<[input |-> <<>>, error |-> "MissingLinefeed"], None>>
    ELSE <<[li EXCEPT !.error = "none"], None>>

\* a LineIter::next that returns nothing more once it reported an error
LineIter_next_fused(li) ==
    IF li.error # "none" THEN <<li, None>>
    ELSE IF Find(li.input, "\n") > 0
    THEN The({IF r.ok
              THEN <<[input |-> Skip(li.input, Find(li.input, "\n")), error |-> "none"], Some(r)>>
              ELSE <<[input |-> Skip(li.input, Find(li.input, "\n")), error |-> r.err], None>> :
              r \in {Line_new(Take(li.input, Find(li.input, "\n") - 1))}})
    ELSE IF Len(li.input) > 0
    THEN <<[li EXCEPT !.error = "MissingLinefeed"], None>>
    ELSE <<[li EXCEPT !.error = "none"], None>>

\* LineIter::next: <<iterator afterwards, Option<Line>>>
LineIter_next(li) ==
    IF Find(li.input, "\n") > 0
    THEN The({IF r.ok
              THEN <<[input |-> Skip(li.input, Find(li.input, "\n")),
                      error |-> "none"], Some(r)>>
              ELSE <<[input |-> Skip(li.input, Find(li.input, "\n")),
                      error |-> r.err], None>> :
              r \in {Line_new(Take(li.input, Find(li.input, "\n") - 1))}})
    ELSE IF Len(li.input) > 0
    THEN <<[li EXCEPT !.error = "MissingLinefeed"], None>>
    ELSE <<[li EXCEPT !.error = "none"], None>>

(***************************************************************************)
(* parse.rs: integer, number, bool and char literals                       *)
(***************************************************************************)

\* char::to_digit(radix): the digit's value, -1 when c is no digit of the radix
DigitVal(c, radix) ==
    LET v == CASE c = "0" -> 0 [] c = "1" -> 1 [] c = "2" -> 2 [] c = "3" -> 3
               [] c = "4" -> 4 [] c = "5" -> 5 [] c = "6" -> 6 [] c = "7" -> 7
               [] c = "8" -> 8 [] c = "9" -> 9
               [] c \in {"a", "A"} -> 10 [] c \in {"b", "B"} -> 11
               [] c \in {"c", "C"} -> 12 [] c \in {"d", "D"} -> 13
               [] c \in {"e", "E"} -> 14 [] c \in {"f", "F"} -> 15
               [] OTHER -> -1
    IN  IF v < radix THEN v ELSE -1

is_digit(c, radix) == DigitVal(c, radix) >= 0

SIGNS == {"-", "+"}

\* the digit loop of core's from_str_radix with checked arithmetic:
\* acc is the value so far, neg whether digits are subtracted
RECURSIVE DigitsValue(_, _, _, _, _)
DigitsValue(s, radix, neg, acc, ty) ==
    IF Len(s) = 0 THEN Some(acc)
    ELSE LET d == DigitVal(s[1], radix)
             nxt == IF neg THEN acc * radix - d ELSE acc * radix + d
         IN  IF d < 0 \/ nxt < ty.lo \/ nxt > ty.hi THEN None
             ELSE DigitsValue(Tail(s), radix, neg, nxt, ty)

\* <T as FromStr>::from_str / T::from_str_radix of the core library
from_str_radix(src, radix, ty) ==
    IF Len(src) = 0 THEN None
    ELSE IF src = <<"+">> \/ src = <<"-">> THEN None
    ELSE IF src[1] = "+" THEN DigitsValue(Tail(src), radix, FALSE, 0, ty)
    ELSE IF src[1] = "-" /\ ty.lo < 0 THEN DigitsValue(Tail(src), radix, TRUE, 0, ty)
    ELSE DigitsValue(src, radix, FALSE, 0, ty)

\* str::split('_'): the sections between underscores
RECURSIVE SplitOn(_, _)
SplitOn(s, c) ==
    LET p == Find(s, c)
    IN  IF p = 0 THEN <<s>> ELSE <<Take(s, p - 1)>> \o SplitOn(Skip(s, p), c)

\* str::replace(c, "")
RECURSIVE Remove(_, _)
Remove(s, c) ==
    IF Len(s) = 0 THEN <<>>
    ELSE IF s[1] = c THEN Remove(Tail(s), c)
    ELSE <<s[1]>> \o Remove(Tail(s), c)

\* a sanitize_num that strips the underscores wherever they stand
sanitize_num_strip(value, radix) == Some(Remove(value, "_"))

\* sanitize_num
sanitize_num(value, radix) ==
    IF Find(value, "_") = 0 THEN Some(value)
    ELSE LET body == IF Len(value) > 0 /\ value[1] \in SIGNS THEN Tail(value) ELSE value
             sections == SplitOn(body, "_")
         IN  IF \A i \in 1..Len(sections) :
                    /\ Len(sections[i]) > 0
                    /\ is_digit(sections[i][1], radix)
                    /\ is_digit(sections[i][Len(sections[i])], radix)
             THEN Some(Remove(value, "_"))
             ELSE None

\* int_radix
int_radix(v, radix, ty) ==
    IF Len(v) > 0 /\ v[1] \in SIGNS THEN None
    ELSE The({IF IsNone(s) THEN None ELSE from_str_radix(Unwrap(s), radix, ty) :
              s \in {sanitize_num(v, radix)}})

\* parse::int for the target integer type ty = [lo, hi]
int(v, ty) ==
    IF Len(v) > 0 /\ v[1] = "b" THEN int_radix(Tail(v), 2, ty)
    ELSE IF Len(v) > 0 /\ v[1] = "x" THEN int_radix(Tail(v), 16, ty)
    ELSE The({IF IsNone(s) THEN None ELSE from_str_radix(Unwrap(s), 10, ty) :
              s \in {sanitize_num(v, 10)}})

\* parse::bool
bool(value) ==
    IF value = <<"t", "r", "u", "e">> THEN Some(TRUE)
    ELSE IF value = <<"f", "a", "l", "s", "e">> THEN Some(FALSE)
    ELSE None

\* parse::char
char(value) == IF Len(value) = 1 THEN Some(value[1]) ELSE None

AllDigits(s) == \A i \in 1..Len(s) : is_digit(s[i], 10)

\* the decimal part of a float literal accepted by f64::from_str
DecimalOk(s) ==
    LET p == Find(s, ".")
    IN  IF p = 0 THEN Len(s) > 0 /\ AllDigits(s)
        ELSE /\ AllDigits(Take(s, p - 1))
             /\ AllDigits(Skip(s, p))
             /\ Len(s) > 1

\* the exponent of a float literal accepted by f64::from_str
ExponentOk(s) ==
    LET digits == IF Len(s) > 0 /\ s[1] \in SIGNS THEN Tail(s) ELSE s
    IN  Len(digits) > 0 /\ AllDigits(digits)

\* whether f64::from_str accepts an unsigned literal starting with a digit or '.'
FloatOk(s) ==
    LET e == IF Find(s, "e") > 0 THEN Find(s, "e") ELSE Find(s, "E")
    IN  IF e = 0 THEN DecimalOk(s)
        ELSE DecimalOk(Take(s, e - 1)) /\ ExponentOk(Skip(s, e))

\* extract_sign
extract_sign(v) ==
    IF Len(v) > 0 /\ v[1] = "-" THEN <<Tail(v), "Negative">>
    ELSE IF Len(v) > 0 /\ v[1] = "+" THEN <<Tail(v), "Positive">>
    ELSE <<v, "Positive">>

\* parse::number, as whether a number is produced
number_ok(v0) ==
    LET v == extract_sign(v0)[1]
    IN  IF v = <<"i", "n", "f">> \/ v = <<"N", "a", "N">> THEN TRUE
        ELSE IF Len(v) = 0 THEN FALSE
        ELSE IF ~(is_digit(v[1], 10) \/ v[1] = ".") THEN FALSE
        ELSE LET s == sanitize_num(v, 10)
             IN  IsSome(s) /\ FloatOk(Unwrap(s))

(***************************************************************************)
(* datetime.rs: RFC 3339 dates and times                                   *)
(***************************************************************************)

\* an is_leap_year without the century rule
is_leap_year_julian(year) == year % 4 = 0

\* is_leap_year
is_leap_year(year) == year % 4 = 0 /\ (year % 100 # 0 \/ year % 400 = 0)

\* days_in_month
days_in_month(year, month) ==
    CASE month \in {4, 6, 9, 11} -> Some(30)
      [] month \in {1, 3, 5, 7, 8, 10, 12} -> Some(31)
      [] month = 2 -> Some(IF is_leap_year(year) THEN 29 ELSE 28)
      [] OTHER -> None

\* digit
digit(b) == IF is_digit(b, 10) THEN Some(DigitVal(b, 10)) ELSE None

\* parse_4_digits
parse_4_digits(ascii) ==
    IF Len(ascii) = 4 /\ AllDigits(ascii)
    THEN Some(DigitVal(ascii[1], 10) * 1000 + DigitVal(ascii[2], 10) * 100
              + DigitVal(ascii[3], 10) * 10 + DigitVal(ascii[4], 10))
    ELSE None

\* parse_year
parse_year(year) == parse_4_digits(year)

\* parse_2_digits
parse_2_digits(ascii) ==
    IF Len(ascii) = 2 /\ AllDigits(ascii)
    THEN Some(DigitVal(ascii[1], 10) * 10 + DigitVal(ascii[2], 10))
    ELSE None

Filter2(s, lo, hi) ==
    LET v == parse_2_digits(s)
    IN  IF IsSome(v) /\ Unwrap(v) >= lo /\ Unwrap(v) <= hi THEN v ELSE None

\* parse_month
parse_month(month) == Filter2(month, 1, 12)

\* parse_day
parse_day(day) == Filter2(day, 1, 31)

\* parse_hour
parse_hour(hour) == Filter2(hour, 0, 23)

\* parse_minute
parse_minute(minute) == Filter2(minute, 0, 59)

\* parse_second
parse_second(second, leap_sec) == Filter2(second, 0, IF leap_sec THEN 60 ELSE 59)

\* parse_nanosecond, as whether a value is produced
parse_nanosecond_ok(nano) ==
    \/ Len(nano) = 0
    \/ Len(nano) >= 2 /\ nano[1] = "." /\ AllDigits(Tail(nano))

\* Date::new: Some(<<year, month, day>>), or None for ExpectedDate
Date_new(bytes) ==
    IF Len(bytes) = 10 /\ bytes[5] = "-" /\ bytes[8] = "-"
    THEN LET year == parse_year(SubSeq(bytes, 1, 4))
             month == parse_month(SubSeq(bytes, 6, 7))
             day == parse_day(SubSeq(bytes, 9, 10))
         IN  IF IsSome(year) /\ IsSome(month) /\ IsSome(day)
             THEN LET mdays == days_in_month(Unwrap(year), Unwrap(month))
                  IN  IF IsSome(mdays) /\ Unwrap(day) <= Unwrap(mdays)
                      THEN Some(<<Unwrap(year), Unwrap(month), Unwrap(day)>>)
                      ELSE None
             ELSE None
    ELSE None

\* Time::new, as whether a time is produced
Time_new_ok(bytes, leap_sec) ==
    /\ Len(bytes) >= 8 /\ bytes[3] = ":" /\ bytes[6] = ":"
    /\ IsSome(parse_hour(SubSeq(bytes, 1, 2)))
    /\ IsSome(parse_minute(SubSeq(bytes, 4, 5)))
    /\ IsSome(parse_second(SubSeq(bytes, 7, 8), leap_sec))
    /\ parse_nanosecond_ok(Skip(bytes, 8))

\* TimeOffset::new, as whether an offset is produced
TimeOffset_new_ok(bytes) ==
    \/ Len(bytes) = 1 /\ bytes[1] = "Z"
    \/ /\ Len(bytes) = 6 /\ bytes[4] = ":" /\ bytes[1] \in {"+", "-"}
       /\ IsSome(parse_hour(SubSeq(bytes, 2, 3)))
       /\ IsSome(parse_minute(SubSeq(bytes, 5, 6)))

\* TimeOffset::rindex
rindex(bytes) ==
    LET len == Len(bytes)
    IN  IF len >= 1 /\ bytes[len] = "Z" THEN len - 1
        ELSE IF len >= 6 THEN len - 6
        ELSE 0

\* DateTime::new: the error kind, "none" when a datetime is produced
DateTime_new_err(bytes) ==
    LET offset == rindex(bytes)
    IN  IF Len(bytes) >= 20 /\ offset >= 11 /\ bytes[11] = "T"
        THEN IF IsNone(Date_new(Take(bytes, 10))) THEN "ExpectedDate"
             ELSE IF ~Time_new_ok(SubSeq(bytes, 12, offset), FALSE) THEN "ExpectedTime"
             ELSE IF ~TimeOffset_new_ok(Skip(bytes, offset)) THEN "ExpectedTimeOffset"
             ELSE "none"
        ELSE "ExpectedDateTime"

(***************************************************************************)
(* schema.rs: the schema prelude                                           *)
(***************************************************************************)

\* the range of the widest integer of the model (TLC's integers are 32-bit)
WideInt == [lo |-> -1000000000, hi |-> 1000000000]

\* Modifier::from_str_start: <<modifier, rest of the value>>
from_str_start(val) ==
    LET p == Find(val, " ")
    IN  IF p = 0 THEN <<"None", val>>
        ELSE IF Take(val, p - 1) = <<"o", "p", "t", "i", "o", "n", "a", "l">>
        THEN <<"Optional", Skip(val, p)>>
        ELSE IF Take(val, p - 1) = <<"l", "i", "s", "t">>
        THEN <<"List", Skip(val, p)>>
        ELSE <<"None", val>>

\* <Type as FromStr>::from_str: the type's name, "InvalidType" for no type
Type_from_str(val) ==
    CASE val = <<"t", "e", "x", "t">> -> "Text"
      [] val = <<"b", "o", "o", "l">> -> "Bool"
      [] val = <<"i", "n", "t">> -> "Int"
      [] val = <<"n", "u", "m", "b", "e", "r">> -> "Number"
      [] val = <<"d", "a", "t", "e", "t", "i", "m", "e">> -> "DateTime"
      [] val = <<"d", "a", "t", "e">> -> "Date"
      [] val = <<"t", "i", "m", "e">> -> "Time"
      [] val = <<"r", "e", "c", "o", "r", "d">> -> "Record"
      [] val = <<"d", "i", "c", "t", "i", "o", "n", "a", "r", "y">> -> "Dictionary"
      [] val = <<"a", "n", "y">> -> "Any"
      [] OTHER -> "InvalidType"

\* Type::parse_value: the error kind, "none" when a default value is produced
parse_value(node_type, modifier, v) ==
    IF modifier # "None" THEN "InvalidDefault"
    ELSE CASE node_type = "Text" -> "none"
           [] node_type = "Bool" -> IF IsSome(bool(v)) THEN "none" ELSE "ExpectedBool"
           [] node_type = "Int" -> IF IsSome(int(v, WideInt)) THEN "none" ELSE "ExpectedInt"
           [] node_type = "Number" -> IF number_ok(v) THEN "none" ELSE "ExpectedNumber"
           [] node_type = "DateTime" -> DateTime_new_err(v)
           [] node_type = "Date" -> IF IsSome(Date_new(v)) THEN "none" ELSE "ExpectedDate"
           [] node_type = "Time" -> IF Time_new_ok(v, FALSE) THEN "none" ELSE "ExpectedTime"
           [] OTHER -> "InvalidDefault"

\* schema::Node
Node(indent, name, modifier, node_type, has_default) ==
    [indent |-> indent, name |-> name, modifier |-> modifier,
     node_type |-> node_type, has_default |-> has_default]

\* Node::from_define: [ok, node, err]
Node_from_define(def) ==
    The({The({The({IF node_type = "InvalidType"
                   THEN [ok |-> FALSE, err |-> "InvalidType",
                         node |-> Node(def.indent, def.key, ms[1], node_type, p > 0)]
                   ELSE The({[ok |-> derr = "none", err |-> derr,
                              node |-> Node(def.indent, def.key, ms[1], node_type, p > 0)] :
                             derr \in {IF p = 0 THEN "none"
                                       ELSE parse_value(node_type, ms[1], Skip(ms[2], p))}}) :
                   node_type \in {Type_from_str(IF p = 0 THEN ms[2]
                                                ELSE Take(ms[2], p - 1))}}) :
              p \in {Find(ms[2], " ")}}) :
         ms \in {from_str_start(def.value)}})

\* Node::is_indent_valid
is_indent_valid(node, prev) ==
    IF IsNone(prev) THEN node.indent = 0
    ELSE \/ node.indent <= Unwrap(prev).indent
         \/ /\ Unwrap(prev).node_type \in {"Record", "Dictionary", "Any"}
            /\ node.indent = Unwrap(prev).indent + 1

\* Schema::new
Schema_new == [nodes |-> <<>>, finished |-> FALSE]

\* Schema::add_node: [schema, err]
add_node(schema, node) ==
    LET last == IF Len(schema.nodes) = 0 THEN None
                ELSE Some(schema.nodes[Len(schema.nodes)])
    IN  IF is_indent_valid(node, last)
        THEN [schema |-> [schema EXCEPT !.nodes = Append(@, node)], err |-> "none"]
        ELSE [schema |-> schema, err |-> "InvalidIndent"]

\* Schema::add_define: [schema, added, err]
add_define(schema, def) ==
    IF schema.finished THEN [schema |-> schema, added |-> FALSE, err |-> "none"]
    ELSE The({IF ~n.ok THEN [schema |-> schema, added |-> FALSE, err |-> n.err]
              ELSE The({[schema |-> a.schema, added |-> a.err = "none", err |-> a.err] :
                        a \in {add_node(schema, n.node)}}) :
              n \in {Node_from_define(def)}})

\* Schema::finish: <<schema afterwards, returned flag>>
finish(schema) ==
    IF schema.finished THEN <<schema, TRUE>>
    ELSE <<[schema EXCEPT !.finished = TRUE], FALSE>>

(***************************************************************************)
(* lines.rs: the definition resolver                                       *)
(***************************************************************************)

\* key_indent
key_indent(key) ==
    LET i == LeadingSpaces(key)
    IN  IF i > 0 /\ i < Len(key) THEN Some(i) ELSE None

\* DefIter::new
DefIter_new(input) ==
    [lines |-> LineIter_new(input), indent_spaces |-> None, schema |-> None,
     define |-> None, error |-> "none"]

\* a DefIter::set_indent_spaces that takes any indent as the unit
set_indent_spaces_any(di, key) ==
    IF IsNone(di.indent_spaces) /\ IsSome(key_indent(key))
    THEN [di |-> [di EXCEPT !.indent_spaces = key_indent(key)], err |-> "none"]
    ELSE [di |-> di, err |-> "none"]

\* a DefIter::set_indent_spaces that learns the unit again from every
\* indented key
set_indent_spaces_again(di, key) ==
    The({IF IsNone(sp) THEN [di |-> di, err |-> "none"]
         ELSE IF Unwrap(sp) >= 2 /\ Unwrap(sp) <= 4
         THEN [di |-> [di EXCEPT !.indent_spaces = sp], err |-> "none"]
         ELSE IF IsNone(di.indent_spaces) THEN [di |-> di, err |-> "InvalidIndent"]
         ELSE [di |-> di, err |-> "none"] : sp \in {key_indent(key)}})

\* DefIter::set_indent_spaces: [di, err]
set_indent_spaces(di, key) ==
    IF IsNone(di.indent_spaces)
    THEN The({IF IsNone(sp) THEN [di |-> di, err |-> "none"]
              ELSE IF Unwrap(sp) >= 2 /\ Unwrap(sp) <= 4
              THEN [di |-> [di EXCEPT !.indent_spaces = sp], err |-> "none"]
              ELSE [di |-> di, err |-> "InvalidIndent"] : sp \in {key_indent(key)}})
    ELSE [di |-> di, err |-> "none"]

\* a DefIter::key_len that leaves the indent out
key_len_flat(di) ==
    IF IsSome(di.define) THEN Len(Unwrap(di.define).key) ELSE 0

\* DefIter::key_len
key_len(di) ==
    IF IsSome(di.define)
    THEN LET i == Unwrap(di.define).indent
                  * (IF IsSome(di.indent_spaces) THEN Unwrap(di.indent_spaces) ELSE 0)
             k == Len(Unwrap(di.define).key)
         IN  i + k
    ELSE 0

\* a DefIter::indent_count that rounds the depth down
indent_count_floor(di, key) ==
    IF IsSome(di.indent_spaces)
    THEN Some(LeadingSpaces(key) \div Unwrap(di.indent_spaces))
    ELSE IF LeadingSpaces(key) = 0 THEN Some(0) ELSE None

\* DefIter::indent_count
indent_count(di, key) ==
    LET spaces == LeadingSpaces(key)
    IN  IF IsSome(di.indent_spaces)
        THEN IF spaces % Unwrap(di.indent_spaces) = 0
             THEN Some(spaces \div Unwrap(di.indent_spaces))
             ELSE None
        ELSE IF spaces = 0 THEN Some(0) ELSE None

\* DefIter::make_define: [ok, def, err]
make_define(di, key, separator, value) ==
    IF AllSpaces(key)
    THEN IF Len(key) = key_len(di) /\ IsSome(di.define)
         THEN [ok |-> TRUE, err |-> "none",
               def |-> Define(Unwrap(di.define).indent, Unwrap(di.define).key,
                              separator, value)]
         ELSE [ok |-> FALSE, def |-> Define(0, <<>>, separator, value),
               err |-> "InvalidIndent"]
    ELSE The({IF IsSome(indent)
              THEN [ok |-> TRUE, err |-> "none",
                    def |-> Define(Unwrap(indent), Skip(key, LeadingSpaces(key)),
                                   separator, value)]
              ELSE [ok |-> FALSE, def |-> Define(0, <<>>, separator, value),
                    err |-> "InvalidIndent"] : indent \in {indent_count(di, key)}})

\* the value of Result<Option<Define>, ParseError> with the iterator afterwards
Processed(di, out, err) == [di |-> di, out |-> out, err |-> err]

\* a DefIter::process_define that hands nothing to the schema
process_define_direct(di, key, separator, value) ==
    The({IF s.err # "none" THEN Processed(s.di, None, s.err)
         ELSE The({IF ~m.ok THEN Processed(s.di, None, m.err)
                   ELSE Processed(s.di, Some(m.def), "none") :
                   m \in {make_define(s.di, key, separator, value)}}) :
         s \in {set_indent_spaces(di, key)}})

\* DefIter::process_define
process_define(di, key, separator, value) ==
    The({IF s.err # "none" THEN Processed(s.di, None, s.err)
         ELSE The({IF ~m.ok THEN Processed(s.di, None, m.err)
                   ELSE IF IsNone(s.di.define) /\ IsSome(s.di.schema)
                   THEN The({IF a.err # "none"
                             THEN Processed([s.di EXCEPT !.schema = Some(a.schema)],
                                            None, a.err)
                             ELSE IF a.added
                             THEN Processed([s.di EXCEPT !.schema = Some(a.schema)],
                                            None, "none")
                             ELSE Processed([s.di EXCEPT !.schema = Some(a.schema)],
                                            Some(m.def), "none") :
                             a \in {add_define(Unwrap(s.di.schema), m.def)}})
                   ELSE Processed(s.di, Some(m.def), "none") :
                   m \in {make_define(s.di, key, separator, value)}}) :
         s \in {set_indent_spaces(di, key)}})

\* a DefIter::process_schema that takes every separator before the first
\* returned Definition
process_schema_again(di) ==
    IF IsNone(di.define) /\ IsNone(di.schema)
    THEN Processed([di EXCEPT !.schema = Some(Schema_new)], None, "none")
    ELSE IF IsNone(di.define)
    THEN Processed([di EXCEPT !.schema = Some(finish(Unwrap(di.schema))[1])], None, "none")
    ELSE Processed(di, None, "UnexpectedSchemaSeparator")

\* DefIter::process_schema
process_schema(di) ==
    IF IsNone(di.define) /\ IsNone(di.schema)
    THEN Processed([di EXCEPT !.schema = Some(Schema_new)], None, "none")
    ELSE IF IsNone(di.define)
    THEN The({IF f[2]
              THEN Processed([di EXCEPT !.schema = Some(f[1])], None,
                             "UnexpectedSchemaSeparator")
              ELSE Processed([di EXCEPT !.schema = Some(f[1])], None, "none") :
              f \in {finish(Unwrap(di.schema))}})
    ELSE Processed(di, None, "UnexpectedSchemaSeparator")

\* DefIter::process_line
process_line(di, ln) ==
    CASE ln.t = "SchemaSeparator" -> process_schema(di)
      [] ln.t \in {"Blank", "Comment"} -> Processed(di, None, "none")
      [] ln.t = "Definition" -> process_define(di, ln.key, ln.sep, ln.value)

\* the loop of DefIter::next: <<iterator afterwards, Option<Define>>>
RECURSIVE DefIter_loop(_)
DefIter_loop(di) ==
    The({IF IsNone(l[2])
         THEN <<[di EXCEPT !.lines = l[1], !.error = l[1].error], None>>
         ELSE The({IF r.err # "none" THEN <<[r.di EXCEPT !.error = r.err], None>>
                   ELSE IF IsSome(r.out)
                   THEN <<[r.di EXCEPT !.define = r.out], r.out>>
                   ELSE DefIter_loop(r.di) :
                   r \in {process_line([di EXCEPT !.lines = l[1]], Unwrap(l[2]))}}) :
         l \in {LineIter_next(di.lines)}})

\* DefIter::next
DefIter_next(di) == DefIter_loop([di EXCEPT !.error = "none"])

(***************************************************************************)
(* de.rs: Branch and MappingIter                                           *)
(***************************************************************************)

\* Branch::with_fields
Branch_with_fields(fields) ==
    [fields |-> fields, visited |-> [i \in 1..Len(fields) |-> FALSE],
     state |-> "Visit", key |-> None, list |-> FALSE, substitute |-> None]

\* Branch::new
Branch_new == Branch_with_fields(<<>>)

\* Branch::first_field
first_field(branch) ==
    IF Len(branch.fields) > 0 THEN Some(branch.fields[1]) ELSE None

\* Branch::visit
visit(branch, key) ==
    [branch EXCEPT
        !.key = key,
        !.visited = [i \in 1..Len(branch.fields) |->
                        IF IsSome(key) /\ branch.fields[i] = Unwrap(key)
                        THEN TRUE ELSE branch.visited[i]]]

\* the first field not yet visited, 0 when all are
FirstUnvisited(branch) ==
    IF \E i \in 1..Len(branch.fields) : ~branch.visited[i]
    THEN CHOOSE i \in 1..Len(branch.fields) :
            /\ ~branch.visited[i]
            /\ \A j \in 1..(i - 1) : branch.visited[j]
    ELSE 0

\* a Branch::cleanup_visit that yields the last field not yet visited
cleanup_visit_last(branch) ==
    IF branch.state = "Cleanup" /\ FirstUnvisited(branch) > 0
    THEN The({<<[branch EXCEPT !.visited[i] = TRUE], Some(branch.fields[i])>> :
              i \in {CHOOSE i \in 1..Len(branch.fields) :
                        /\ ~branch.visited[i]
                        /\ \A j \in (i + 1)..Len(branch.fields) : branch.visited[j]}})
    ELSE <<branch, None>>

\* Branch::cleanup_visit: <<branch afterwards, Option<field>>>
cleanup_visit(branch) ==
    LET i == FirstUnvisited(branch)
    IN  IF branch.state = "Cleanup" /\ i > 0
        THEN <<[branch EXCEPT !.visited[i] = TRUE], Some(branch.fields[i])>>
        ELSE <<branch, None>>

\* Branch::all_visited
all_visited(branch) == \A i \in 1..Len(branch.visited) : branch.visited[i]

\* a Branch::is_substitute that never reports the current field as the
\* substitute
is_substitute_never(branch) == FALSE

\* Branch::is_substitute
is_substitute(branch) == IsSome(branch.key) /\ branch.key = branch.substitute

\* MappingIter::new
MappingIter_new(input) ==
    [defs |-> DefIter_new(input), define |-> None, stack |-> <<>>]

\* the top of the branch stack: stack.last()
Last(stack) == stack[Len(stack)]

\* a fallible call's outcome: the iterator afterwards, the value, the error
Res(m, v, err) == [m |-> m, v |-> v, err |-> err]

\* MappingIter::peek
peek(m) ==
    IF m.defs.error # "none" THEN Res(m, None, m.defs.error)
    ELSE IF IsNone(m.define)
    THEN The({Res([m EXCEPT !.defs = n[1], !.define = n[2]], n[2], "none") :
              n \in {DefIter_next(m.defs)}})
    ELSE Res(m, m.define, "none")

\* MappingIter::is_list
is_list(m) == IF Len(m.stack) > 0 THEN Last(m.stack).list ELSE FALSE

\* a MappingIter::next_list that splits on spaces whatever the separator
next_list_split(m) ==
    IF IsSome(m.define)
    THEN The({<<[m EXCEPT !.define = d[2]], Some(d[1])>> :
              d \in {The({IF p = 0
                          THEN <<Unwrap(m.define), None>>
                          ELSE <<[Unwrap(m.define) EXCEPT
                                     !.value = Take(Unwrap(m.define).value, p - 1)],
                                 Some([Unwrap(m.define) EXCEPT
                                     !.value = Skip(Unwrap(m.define).value, p)])>> :
                          p \in {Find(Unwrap(m.define).value, " ")}})}})
    ELSE <<m, None>>

\* MappingIter::next_list: <<iterator afterwards, Option<Define>>>
next_list(m) ==
    IF IsSome(m.define)
    THEN IF Unwrap(m.define).separator = "Normal"
         THEN The({<<[m EXCEPT !.define = d[2]], Some(d[1])>> :
                   d \in {split_list(Unwrap(m.define))}})
         ELSE <<[m EXCEPT !.define = None], m.define>>
    ELSE <<m, None>>

\* <MappingIter as Iterator>::next: <<iterator afterwards, Option<Define>>>
MappingIter_next(m) ==
    The({IF is_list(m1) THEN next_list(m1)
         ELSE <<[m1 EXCEPT !.define = None], m1.define>> :
         m1 \in {IF IsNone(m.define)
                 THEN The({[m EXCEPT !.defs = n[1], !.define = n[2]] :
                           n \in {DefIter_next(m.defs)}})
                 ELSE m}})

\* MappingIter::push_stack
push_stack(m, branch) == [m EXCEPT !.stack = Append(@, branch)]

\* a MappingIter::pop_stack that leaves the branch on the stack
pop_stack_keep(m) == m

\* MappingIter::pop_stack
pop_stack(m) ==
    IF Len(m.stack) > 0 THEN [m EXCEPT !.stack = SubSeq(@, 1, Len(@) - 1)] ELSE m


\* a MappingIter::check_substitute that drops the inline value instead of
\* handing it to the first field
check_substitute_drop(m) ==
    IF Len(m.stack) > 0 /\ IsSome(first_field(Last(m.stack))) /\ IsSome(m.define)
    THEN [m EXCEPT !.define = None]
    ELSE m

\* MappingIter::check_substitute
check_substitute(m) ==
    LET indent == Len(m.stack)
    IN  IF indent > 0 /\ IsSome(first_field(Last(m.stack))) /\ IsSome(m.define)
        THEN LET key == Unwrap(first_field(Last(m.stack)))
                 define == Unwrap(m.define)
             IN  IF Len(define.value) > 0 /\ indent > 0
                 THEN [m EXCEPT
                         !.stack[indent].substitute = Some(key),
                         !.define = Some(Define(indent - 1, key, define.separator,
                                                define.value))]
                 ELSE [m EXCEPT !.define = None]
        ELSE m

\* MappingIter::set_key
set_key(m, key) ==
    IF Len(m.stack) > 0
    THEN [m EXCEPT !.stack[Len(m.stack)] = visit(@, key)]
    ELSE m

\* MappingIter::set_list
set_list(m, list) ==
    IF Len(m.stack) > 0
    THEN [m EXCEPT !.stack[Len(m.stack)].list = list]
    ELSE m

\* MappingIter::check_indent
check_indent(m) ==
    The({IF p.err # "none" THEN Res(p.m, FALSE, p.err)
         ELSE IF IsSome(p.v)
         THEN Res(p.m, check_indent_define(Unwrap(p.v), Len(p.m.stack)), "none")
         ELSE Res(p.m, FALSE, "none") : p \in {peek(m)}})

\* MappingIter::branch_state
branch_state(m) ==
    IF Len(m.stack) > 0 THEN Last(m.stack).state ELSE "Cleanup"

\* a MappingIter::check_branch_done that refuses to finish the root record
\* while a definition is pending
check_branch_done_end(m) ==
    The({IF c.err # "none" THEN Res(c.m, FALSE, c.err)
         ELSE IF Len(c.m.stack) > 0
         THEN The({IF /\ Last(m1.stack).state = "Cleanup" /\ all_visited(Last(m1.stack))
                      /\ Len(m1.stack) = 1 /\ IsSome(m1.define)
                   THEN Res(m1, FALSE, "UnexpectedKey")
                   ELSE Res(m1, Last(m1.stack).state = "Cleanup" /\ all_visited(Last(m1.stack)),
                            "none") :
                   m1 \in {IF ~c.v
                           THEN [c.m EXCEPT !.stack[Len(c.m.stack)].state = "Cleanup"]
                           ELSE c.m}})
         ELSE Res(c.m, TRUE, "none") : c \in {check_indent(m)}})

\* MappingIter::check_branch_done
check_branch_done(m) ==
    The({IF c.err # "none" THEN Res(c.m, FALSE, c.err)
         ELSE IF Len(c.m.stack) > 0
         THEN The({Res(m1, Last(m1.stack).state = "Cleanup" /\ all_visited(Last(m1.stack)),
                       "none") :
                   m1 \in {IF ~c.v
                           THEN [c.m EXCEPT !.stack[Len(c.m.stack)].state = "Cleanup"]
                           ELSE c.m}})
         ELSE Res(c.m, TRUE, "none") : c \in {check_indent(m)}})

\* MappingIter::check_key
check_key(m) ==
    IF Len(m.stack) > 0 /\ IsSome(Last(m.stack).key)
    THEN The({IF p.err # "none" THEN Res(p.m, FALSE, p.err)
              ELSE IF IsSome(p.v)
              THEN Res(p.m, Unwrap(p.v).key = Unwrap(Last(m.stack).key), "none")
              ELSE Res(p.m, FALSE, "none") : p \in {peek(m)}})
    ELSE Res(m, FALSE, "none")

\* MappingIter::is_append
is_append(m) ==
    The({IF c.err # "none" \/ ~c.v THEN c ELSE check_key(c.m) : c \in {check_indent(m)}})

\* MappingIter::is_separator_text_append
is_separator_text_append(m) ==
    The({IF p.err # "none" THEN Res(p.m, FALSE, p.err)
         ELSE IF IsSome(p.v)
         THEN Res(p.m, Unwrap(p.v).separator = "TextAppend", "none")
         ELSE Res(p.m, FALSE, "none") : p \in {peek(m)}})

\* a MappingIter::is_text_append that looks at the separator only, not at
\* the key and the depth
is_text_append_any_key(m) == is_separator_text_append(m)

\* MappingIter::is_text_append
is_text_append(m) ==
    The({IF a.err # "none" \/ ~a.v THEN a ELSE is_separator_text_append(a.m) :
         a \in {is_append(m)}})

(***************************************************************************)
(* de.rs: Deserializer                                                     *)
(***************************************************************************)

\* Deserializer::new
Deserializer_new(input) == MappingIter_new(input)

\* Deserializer::define_result
define_result(m, define) ==
    IF IsSome(define) THEN Res(m, Unwrap(define), "none")
    ELSE IF m.defs.error # "none" THEN Res(m, Define(0, <<>>, "Normal", <<>>), m.defs.error)
    ELSE Res(m, Define(0, <<>>, "Normal", <<>>), "ExpectedMore")

\* Deserializer::peek_key
peek_key(m) ==
    The({IF p.err # "none" THEN Res(p.m, <<>>, p.err)
         ELSE The({Res(d.m, d.v.key, d.err) : d \in {define_result(p.m, p.v)}}) :
         p \in {peek(m)}})

\* Deserializer::get_value
get_value(m) ==
    The({The({Res(d.m, d.v.value, d.err) : d \in {define_result(n[1], n[2])}}) :
         n \in {MappingIter_next(m)}})

\* the while loop of Deserializer::parse_text
RECURSIVE parse_text_loop(_, _, _)
parse_text_loop(m, value, val) ==
    The({IF a.err # "none" THEN Res(a.m, <<>>, a.err)
         ELSE IF a.v
         THEN The({IF g.err # "none" THEN Res(g.m, <<>>, g.err)
                   ELSE parse_text_loop(g.m, value \o val \o <<"\n">>, g.v) :
                   g \in {get_value(a.m)}})
         ELSE IF Len(value) = 0 THEN Res(a.m, val, "none")
         ELSE Res(a.m, value \o val, "none") : a \in {is_text_append(m)}})

\* Deserializer::parse_text
parse_text(m) ==
    The({IF g.err # "none" THEN Res(g.m, <<>>, g.err)
         ELSE parse_text_loop(g.m, <<>>, g.v) : g \in {get_value(m)}})

\* a Deserializer::parse_char that does not look for a second continuation
Deserializer_parse_char_lax(m) ==
    The({IF g.err # "none" THEN Res(g.m, " ", g.err)
         ELSE The({IF a.err # "none" THEN Res(a.m, " ", a.err)
                   ELSE IF a.v /\ Len(g.v) = 0
                   THEN The({IF g2.err # "none" THEN Res(g2.m, " ", g2.err)
                             ELSE IF Len(g2.v) = 0
                             THEN Res(g2.m, "\n", "none")
                             ELSE Res(g2.m, " ", "ExpectedChar") :
                             g2 \in {get_value(a.m)}})
                   ELSE The({IF b.err # "none" THEN Res(b.m, " ", b.err)
                             ELSE IF b.v THEN Res(b.m, " ", "ExpectedChar")
                             ELSE IF IsSome(char(g.v))
                             THEN Res(b.m, Unwrap(char(g.v)), "none")
                             ELSE Res(b.m, " ", "ExpectedChar") :
                             b \in {is_text_append(a.m)}}) :
                   a \in {is_text_append(g.m)}}) :
         g \in {get_value(m)}})

\* Deserializer::parse_char
Deserializer_parse_char(m) ==
    The({IF g.err # "none" THEN Res(g.m, " ", g.err)
         ELSE The({IF a.err # "none" THEN Res(a.m, " ", a.err)
                   ELSE IF a.v /\ Len(g.v) = 0
                   THEN The({IF g2.err # "none" THEN Res(g2.m, " ", g2.err)
                             ELSE The({IF a2.err # "none" THEN Res(a2.m, " ", a2.err)
                                       ELSE IF ~a2.v /\ Len(g2.v) = 0
                                       THEN Res(a2.m, "\n", "none")
                                       ELSE Res(a2.m, " ", "ExpectedChar") :
                                       a2 \in {is_text_append(g2.m)}}) :
                             g2 \in {get_value(a.m)}})
                   ELSE The({IF b.err # "none" THEN Res(b.m, " ", b.err)
                             ELSE IF b.v THEN Res(b.m, " ", "ExpectedChar")
                             ELSE IF IsSome(char(g.v))
                             THEN Res(b.m, Unwrap(char(g.v)), "none")
                             ELSE Res(b.m, " ", "ExpectedChar") :
                             b \in {is_text_append(a.m)}}) :
                   a \in {is_text_append(g.m)}}) :
         g \in {get_value(m)}})

\* Deserializer::parse_bool
parse_bool(m) ==
    The({IF g.err # "none" THEN Res(g.m, FALSE, g.err)
         ELSE The({IF IsSome(b) THEN Res(g.m, Unwrap(b), "none")
                   ELSE Res(g.m, FALSE, "ExpectedBool") : b \in {bool(g.v)}}) :
         g \in {get_value(m)}})

\* Deserializer::parse_int for the integer type ty
parse_int(m, ty) ==
    The({IF g.err # "none" THEN Res(g.m, 0, g.err)
         ELSE The({IF IsSome(i) THEN Res(g.m, Unwrap(i), "none")
                   ELSE Res(g.m, 0, "ExpectedInt") : i \in {int(g.v, ty)}}) :
         g \in {get_value(m)}})

\* Deserializer::deserialize_identifier, up to the visitor's call
deserialize_identifier(m) ==
    The({IF IsSome(c[2])
         THEN Res([m EXCEPT !.stack[Len(m.stack)] = c[1]], Unwrap(c[2]), "none")
         ELSE The({IF k.err # "none" THEN k
                   ELSE Res(set_key(k.m, Some(k.v)), k.v, "none") : k \in {peek_key(m)}}) :
         c \in {IF Len(m.stack) > 0 THEN cleanup_visit(Last(m.stack)) ELSE <<0, None>>}})

(***************************************************************************)
(* Host shapes: the types a document is decoded into or encoded from, and  *)
(* the serde visitors the derive macros generate for them                  *)
(***************************************************************************)

TBool == [k |-> "bool"]

TInt(lo, hi) == [k |-> "int", lo |-> lo, hi |-> hi]

TText == [k |-> "text"]

TChar == [k |-> "char"]

TOpt(t) == [k |-> "opt", of |-> t]

TList(t) == [k |-> "list", of |-> t]

TRec(names, types) == [k |-> "rec", names |-> names, types |-> types]

\* HashMap<String, String>
TMap == [k |-> "map"]

\* schema::Value and serde's IgnoredAny
TAny == [k |-> "any"]

\* the unit type ()
TUnit == [k |-> "unit"]

\* the outcome of from_str / to_string
Ok(v) == [st |-> "ok", val |-> <<v>>, err |-> "none"]

Err(e) == [st |-> "err", val |-> <<>>, err |-> e]

Panic == [st |-> "panic", val |-> <<>>, err |-> "todo"]

\* a frame of the visitor call stack
Frame(op, ty, vals, idx) == [op |-> op, ty |-> ty, vals |-> vals, idx |-> idx]

\* T::deserialize(&mut deserializer) is about to be called
FrameDe(ty) == Frame("de", ty, <<>>, 0)

\* index of the declared field named key, 0 for serde's __ignore
FieldIndex(names, key) ==
    IF \E i \in 1..Len(names) : names[i] = key
    THEN CHOOSE i \in 1..Len(names) : names[i] = key
    ELSE 0

\* HashMap::insert, the map a set of <<key, value>> entries
MapInsert(map, k, v) == {e \in map : e[1] # k} \cup {<<k, v>>}

\* the value a finished child hands to the visitor below it: the frames
\* afterwards and the outcome once the root value is complete
RECURSIVE Deliver(_, _)
Deliver(frames, v) ==
    IF Len(frames) = 0 THEN [ctl |-> <<>>, out |-> Some(Ok(v))]
    ELSE LET top == frames[1]
             rest == Tail(frames)
         IN  CASE top.op = "val" ->
                    [ctl |-> <<Frame("key", top.ty,
                                     IF top.idx > 0
                                     THEN [top.vals EXCEPT ![top.idx] = Some(v)]
                                     ELSE top.vals, 0)>> \o rest,
                     out |-> None]
               [] top.op = "elemval" ->
                    [ctl |-> <<Frame("elem", top.ty, Append(top.vals, v), 0)>> \o rest,
                     out |-> None]
               [] top.op = "some" -> Deliver(rest, Some(v))
               [] top.op = "mkeyval" ->
                    [ctl |-> <<FrameDe(TText), Frame("mval", top.ty, top.vals, v)>> \o rest,
                     out |-> None]
               [] top.op = "mval" ->
                    [ctl |-> <<Frame("mkey", top.ty, MapInsert(top.vals, top.idx, v), 0)>>
                             \o rest,
                     out |-> None]

\* the derived visit_map after its key loop: an unset Option field is None,
\* any other unset field is serde's missing_field error
MissingFields(ty, vals) ==
    \E i \in 1..Len(vals) : IsNone(vals[i]) /\ ty.types[i].k # "opt"

RecordValue(ty, vals) ==
    [i \in 1..Len(vals) |-> IF IsSome(vals[i]) THEN Unwrap(vals[i]) ELSE None]

(***************************************************************************)
(* ser.rs: Serializer                                                      *)
(***************************************************************************)

\* Display of an integer
RECURSIVE ToDec(_)
ToDec(n) ==
    IF n < 0 THEN <<"-">> \o ToDec(-n)
    ELSE IF n < 10 THEN <<SubSeq("0123456789", n + 1, n + 1)>>
    ELSE ToDec(n \div 10) \o ToDec(n % 10)

\* <bool as Item>::write
bool_write(v) == IF v THEN Chars("true") ELSE Chars("false")

\* char::is_whitespace, over the characters of the model
is_whitespace(c) == c \in {" ", "\t", "\n", "\r"}

\* char::is_control, over the characters of the model
is_control(c) == c \in {"\t", "\n", "\r"}

\* is_quoting_required
is_quoting_required(k) ==
    \/ Len(k) > 0 /\ k[1] \in {" ", "\"", "#"}
    \/ Find(k, ":") > 0

\* starts_with_whitespace
starts_with_whitespace(k) == Len(k) > 0 /\ is_whitespace(k[1])

\* is_colon_homoglyph; a character outside ASCII is written as its code point
is_colon_homoglyph(c) ==
    c \in {"U+02D0", "U+02F8", "U+0703", "U+0704", "U+0708", "U+0709", "U+1365",
           "U+1366", "U+1804", "U+2254", "U+2255", "U+2982", "U+2A74", "U+2AF6",
           "U+A789", "U+FE13", "U+FE55", "U+FF1A", "U+E003A"}

\* contains_problematic_characters
contains_problematic_characters(k) ==
    \E i \in 1..Len(k) : is_control(k[i]) \/ is_colon_homoglyph(k[i])

\* is_quoting_suggested
is_quoting_suggested(k) ==
    starts_with_whitespace(k) \/ contains_problematic_characters(k)

\* the loop of quoted_key: every '"' is doubled
RECURSIVE DoubleQuotes(_)
DoubleQuotes(k) ==
    IF Len(k) = 0 THEN <<>>
    ELSE (IF k[1] = "\"" THEN <<"\"", "\"">> ELSE <<k[1]>>) \o DoubleQuotes(Tail(k))

\* a quoted_key that wraps the key without doubling its quotes
quoted_key_wrap(k) ==
    IF is_quoting_required(k) \/ is_quoting_suggested(k)
    THEN <<"\"">> \o k \o <<"\"">>
    ELSE k

\* quoted_key
quoted_key(k) ==
    IF is_quoting_required(k) \/ is_quoting_suggested(k)
    THEN <<"\"">> \o DoubleQuotes(k) \o <<"\"">>
    ELSE k

\* ser::Branch as push_stack creates it
SerBranch == [key |-> None, n_field |-> 0, modifier |-> "No", visited |-> FALSE]

\* a Branch::is_substitute_allowed that looks at the field number alone
Branch_is_substitute_allowed_first(branch) == branch.n_field = 1

\* Branch::is_substitute_allowed
Branch_is_substitute_allowed(branch) ==
    branch.modifier = "No" /\ branch.n_field = 1

\* Serializer::new
Serializer_new(n_indent) ==
    [n_indent |-> Max(n_indent, 1), writer |-> <<>>, stack |-> <<>>,
     is_key |-> FALSE, indent |-> 0, line |-> "Start", separator |-> "Normal"]

\* write!(self.writer, ...)
Write(s, text) == [s EXCEPT !.writer = @ \o text]

\* Serializer::push_stack
Serializer_push_stack(s) == [s EXCEPT !.stack = Append(@, SerBranch)]

\* Serializer::set_modifier
set_modifier(s, modifier) ==
    IF Len(s.stack) > 0
    THEN [s EXCEPT !.stack[Len(s.stack)].modifier = modifier]
    ELSE s

\* Serializer::is_list
Serializer_is_list(s) ==
    IF Len(s.stack) > 0 THEN Last(s.stack).modifier = "List" ELSE FALSE

\* Serializer::set_key
Serializer_set_key(s, key) ==
    IF Len(s.stack) > 0
    THEN [s EXCEPT !.stack[Len(s.stack)].key = Some(quoted_key(key)),
                   !.stack[Len(s.stack)].n_field = @ + 1]
    ELSE s

\* Serializer::set_key_blank
set_key_blank(s) ==
    IF Len(s.stack) > 0 /\ IsSome(Last(s.stack).key)
    THEN [s EXCEPT !.stack[Len(s.stack)].key = Some(Spaces(Len(Unwrap(@))))]
    ELSE s

\* Serializer::nesting
nesting(s) == Len(s.stack)

\* Serializer::set_indent
set_indent(s) == [s EXCEPT !.indent = nesting(s)]

\* a Serializer::is_merge_line that never merges
is_merge_line_never(s) == FALSE

\* Serializer::is_merge_line
is_merge_line(s) == s.line = "AfterValue" /\ s.separator = "Normal"

\* Serializer::is_substitute_allowed
is_substitute_allowed(s) ==
    IF Len(s.stack) > 0 THEN Branch_is_substitute_allowed(Last(s.stack)) ELSE TRUE

\* Serializer::visit_branch; n counts from 0
visit_branch(s, n) ==
    IF n < Len(s.stack) THEN [s EXCEPT !.stack[n + 1].visited = TRUE] ELSE s

\* Serializer::write_linefeed
write_linefeed(s) ==
    IF s.line = "AfterValue"
    THEN [Write(s, <<"\n">>) EXCEPT !.line = "Start"]
    ELSE s

\* Serializer::write_indent
write_indent(s, n) == Write(s, Spaces(n * s.n_indent))

\* Serializer::write_key; n counts from 0
write_key(s, n) ==
    The({IF n < Len(s1.stack)
         THEN visit_branch(IF IsSome(s1.stack[n + 1].key)
                           THEN Write(s1, Unwrap(s1.stack[n + 1].key))
                           ELSE s1, n)
         ELSE s1 : s1 \in {write_indent(write_linefeed(s), n)}})

\* Serializer::write_unvisited_key
write_unvisited_key(s) ==
    LET indent == nesting(s)
    IN  IF indent > 0 THEN Write(write_key(s, indent - 1), <<":", "\n">>) ELSE s

\* a Serializer::pop_stack that leaves the last line open
Serializer_pop_stack_open(s) ==
    IF Len(s.stack) > 0
    THEN The({set_indent(IF ~Last(s.stack).visited THEN write_unvisited_key(s1) ELSE s1) :
              s1 \in {[s EXCEPT !.stack = SubSeq(@, 1, Len(@) - 1)]}})
    ELSE s

\* Serializer::pop_stack
Serializer_pop_stack(s) ==
    IF Len(s.stack) > 0
    THEN The({write_linefeed(set_indent(
                 IF ~Last(s.stack).visited THEN write_unvisited_key(s1) ELSE s1)) :
              s1 \in {[s EXCEPT !.stack = SubSeq(@, 1, Len(@) - 1)]}})
    ELSE s

\* the for loop of Serializer::write_keys, from n up to n1
RECURSIVE write_keys_loop(_, _, _)
write_keys_loop(s, n, n1) ==
    IF n >= n1 THEN s
    ELSE The({IF n1 - n = 1 THEN write_keys_loop(s1, n + 1, n1)
              ELSE IF n1 - n = 2 /\ is_substitute_allowed(s1)
              THEN visit_branch(s1, n + 1)
              ELSE write_keys_loop(Write(s1, <<":", "\n">>), n + 1, n1) :
              s1 \in {write_key(s, n)}})

\* Serializer::write_keys
write_keys(s) ==
    The({Write(s1, as_str(s1.separator)) :
         s1 \in {set_key_blank(set_indent(
                    write_keys_loop(s, Max(s.indent, 1) - 1, nesting(s))))}})

\* a serializer call's outcome: the serializer afterwards and the error
SRes(s, err) == [s |-> s, err |-> err]

\* Serializer::ser_item, the item given by what its Item::write prints
ser_item(s, item) ==
    IF s.is_key THEN SRes(s, "InvalidKey")
    ELSE SRes([Write(IF is_merge_line(s) THEN Write(s, <<" ">>) ELSE write_keys(s), item)
                 EXCEPT !.line = "AfterValue"], "none")

\* the for loop of Serializer::write_text over v.split('\n')
RECURSIVE write_text_loop(_, _)
write_text_loop(s, vals) ==
    IF Len(vals) = 0 THEN SRes(s, "none")
    ELSE The({IF r.err # "none" THEN r
              ELSE write_text_loop(
                     [(IF r.s.separator = "Normal" THEN r.s ELSE write_linefeed(r.s))
                        EXCEPT !.separator = "TextAppend"], Tail(vals)) :
              r \in {ser_item(s, vals[1])}})

\* Serializer::write_text
write_text(s, v) ==
    The({IF r.err # "none" THEN r
         ELSE SRes([r.s EXCEPT !.separator = "Normal"], "none") :
         r \in {write_text_loop(IF Serializer_is_list(s) /\ Find(v, " ") > 0
                                THEN [s EXCEPT !.separator = "TextValue"]
                                ELSE s,
                                SplitOn(v, "\n"))}})

\* Serializer::serialize_str
serialize_str(s, v) ==
    IF s.is_key THEN SRes(write_linefeed(Serializer_set_key(s, v)), "none")
    ELSE write_text(s, v)

\* Serializer::ser_key for a key that is a &str
ser_key(s, key) ==
    The({IF r.err # "none" THEN r
         ELSE SRes([r.s EXCEPT !.is_key = FALSE], "none") :
         r \in {serialize_str([s EXCEPT !.is_key = TRUE], key)}})

(***************************************************************************)
(* State                                                                   *)
(***************************************************************************)

VARIABLES
    shape,      \* the host type T of from_str::<T> / to_string::<T>
    value,      \* Some(v) when the behaviour starts by encoding the value v
    ser,        \* the Serializer of the running to_string
    sctl,       \* the Serialize call stack of the running to_string, top first
    outs,       \* the outcomes of the to_string calls that returned, in order
    docs,       \* the texts handed to from_str, in order
    mappings,   \* Deserializer.mappings of the running from_str
    ctl,        \* the visitor call stack of the running from_str, top first
    results,    \* the outcomes of the from_str calls that returned, in order
    li,         \* a LineIter over docs[1], driven by hand as in lines.rs mod test
    li_ret,     \* what each li.next() returned and the iterator it left, in order
    di,         \* a DefIter over docs[2], driven by hand as in lines.rs mod test
    di_ret,     \* what each di.next() returned and the iterator it left, in order
    call,       \* a call of parse::int, Date::from_str or quoted_key by a unit test
    ret         \* what the call returned, once it has

\* the iterators that lines.rs mod test drives without a Deserializer, and
\* the call of a unit test of parse.rs, datetime.rs or ser.rs
ivars == <<li, li_ret, di, di_ret, call, ret>>

vars == <<shape, value, ser, sctl, outs, docs, mappings, ctl, results, ivars>>

\* a call of a function under test: its name, its text argument and the
\* type it is asked for
Call(fn, arg, ty) == [fn |-> fn, arg |-> arg, ty |-> ty]

\* no unit test is running
NoCall == Call("none", <<>>, "")

\* a handler returned: the deserializer afterwards and what the visitors did
Advance(m, d) ==
    /\ mappings' = m
    /\ ctl' = d.ctl
    /\ results' = IF IsSome(d.out) THEN Append(results, Unwrap(d.out)) ELSE results
    /\ UNCHANGED <<ivars, shape, value, ser, sctl, outs, docs>>

\* a handler returned an error, which every caller propagates with `?`
Fail(m, e) == Advance(m, [ctl |-> <<>>, out |-> Some(Err(e))])

\* todo!() was reached
Abort(m) == Advance(m, [ctl |-> <<>>, out |-> Some(Panic)])

Running == Len(ctl) > 0

Top == ctl[1]

Encoding == Len(sctl) > 0

STop == sctl[1]

\* a Serialize call returned: the serializer afterwards and the calls left;
\* tests/roundtrip.rs hands the first text to from_str
SAdvance(s, frames) ==
    /\ ser' = s
    /\ sctl' = frames
    /\ outs' = IF Len(frames) = 0 THEN Append(outs, Ok(s.writer)) ELSE outs
    /\ docs' = IF Len(frames) = 0 /\ Len(outs) = 0 THEN Append(docs, s.writer) ELSE docs
    /\ UNCHANGED <<ivars, shape, value, mappings, ctl, results>>

\* a Serialize call returned an error, which every caller propagates with `?`
SFail(s, e) ==
    /\ ser' = s
    /\ sctl' = <<>>
    /\ outs' = Append(outs, Err(e))
    /\ UNCHANGED <<ivars, shape, value, docs, mappings, ctl, results>>

(***************************************************************************)
(* de.rs: from_str and the handlers of the serde traits                    *)
(***************************************************************************)

\* from_str
from_str ==
    /\ ~Running /\ ~Encoding
    /\ Len(results) < Len(docs)
    /\ mappings' = Deserializer_new(docs[Len(results) + 1])
    /\ ctl' = <<FrameDe(shape)>>
    /\ UNCHANGED <<ivars, shape, value, ser, sctl, outs, docs, results>>

\* deserialize_struct
DeserializeStruct ==
    /\ Running /\ Top.op = "de" /\ Top.ty.k = "rec"
    /\ Advance(check_substitute(push_stack(mappings, Branch_with_fields(Top.ty.names))),
               [ctl |-> <<Frame("key", Top.ty, [i \in 1..Len(Top.ty.names) |-> None], 0)>>
                        \o Tail(ctl),
                out |-> None])

\* MapAccess::next_key_seed for a derived struct, with the field identifier
\* it deserializes and the visitor's dispatch on it
NextKeySeed ==
    /\ Running /\ Top.op = "key"
    /\ \E b \in {check_branch_done(mappings)} :
         IF b.err # "none" THEN Fail(b.m, b.err)
         ELSE IF b.v
         THEN IF MissingFields(Top.ty, Top.vals)
              THEN Fail(pop_stack(b.m), "Deserialize")
              ELSE Advance(pop_stack(b.m),
                           Deliver(Tail(ctl), RecordValue(Top.ty, Top.vals)))
         ELSE \E k \in {deserialize_identifier(b.m)} :
                IF k.err # "none" THEN Fail(k.m, k.err)
                ELSE \E i \in {FieldIndex(Top.ty.names, k.v)} :
                       IF i > 0 /\ IsSome(Top.vals[i]) THEN Fail(k.m, "Deserialize")
                       ELSE Advance(k.m,
                              [ctl |-> <<FrameDe(IF i > 0 THEN Top.ty.types[i] ELSE TAny),
                                         Frame("val", Top.ty, Top.vals, i)>> \o Tail(ctl),
                               out |-> None])

\* deserialize_any / deserialize_ignored_any
DeserializeAny ==
    /\ Running /\ Top.op = "de" /\ Top.ty.k = "any"
    /\ \E k \in {deserialize_identifier(mappings)} :
         IF k.err # "none" THEN Fail(k.m, k.err)
         ELSE IF IsSome(k.m.defs.schema) THEN Abort(k.m)
         ELSE Fail(k.m, "UnexpectedKey")

\* deserialize_bool
DeserializeBool ==
    /\ Running /\ Top.op = "de" /\ Top.ty.k = "bool"
    /\ \E r \in {parse_bool(mappings)} :
         IF r.err # "none" THEN Fail(r.m, r.err)
         ELSE Advance(r.m, Deliver(Tail(ctl), r.v))

\* deserialize_i8 .. deserialize_u64
DeserializeInt ==
    /\ Running /\ Top.op = "de" /\ Top.ty.k = "int"
    /\ \E r \in {parse_int(mappings, Top.ty)} :
         IF r.err # "none" THEN Fail(r.m, r.err)
         ELSE Advance(r.m, Deliver(Tail(ctl), r.v))

\* deserialize_char
DeserializeChar ==
    /\ Running /\ Top.op = "de" /\ Top.ty.k = "char"
    /\ \E r \in {Deserializer_parse_char(mappings)} :
         IF r.err # "none" THEN Fail(r.m, r.err)
         ELSE Advance(r.m, Deliver(Tail(ctl), r.v))

\* deserialize_str / deserialize_string
DeserializeStr ==
    /\ Running /\ Top.op = "de" /\ Top.ty.k = "text"
    /\ IF branch_state(mappings) = "Cleanup" THEN Fail(mappings, "MissingField")
       ELSE \E r \in {parse_text(mappings)} :
              IF r.err # "none" THEN Fail(r.m, r.err)
              ELSE Advance(r.m, Deliver(Tail(ctl), r.v))

\* units delivered to one list before the model stops following the decode
MaxUnits == 2

\* deserialize_unit: visit_unit, with nothing read
DeserializeUnit ==
    /\ Running /\ Top.op = "de" /\ Top.ty.k = "unit"
    /\ Len(ctl) >= 2 /\ ctl[2].op = "elemval" => Len(ctl[2].vals) < MaxUnits
    /\ Advance(mappings, Deliver(Tail(ctl), "()"))

\* deserialize_option
DeserializeOption ==
    /\ Running /\ Top.op = "de" /\ Top.ty.k = "opt"
    /\ IF Len(mappings.stack) > 0 /\ Last(mappings.stack).state = "Cleanup"
       THEN Advance(mappings, Deliver(Tail(ctl), None))
       ELSE IF Len(mappings.stack) > 0 /\ is_substitute(Last(mappings.stack))
       THEN Fail(mappings, "InvalidSubstitute")
       ELSE Advance(mappings,
                    [ctl |-> <<FrameDe(Top.ty.of), Frame("some", Top.ty, <<>>, 0)>>
                             \o Tail(ctl),
                     out |-> None])

\* deserialize_seq
DeserializeSeq ==
    /\ Running /\ Top.op = "de" /\ Top.ty.k = "list"
    /\ IF Len(mappings.stack) > 0 /\ is_substitute(Last(mappings.stack))
       THEN Fail(set_list(mappings, TRUE), "InvalidSubstitute")
       ELSE Advance(set_list(mappings, TRUE),
                    [ctl |-> <<Frame("elem", Top.ty, <<>>, 0)>> \o Tail(ctl),
                     out |-> None])

\* SeqAccess::next_element_seed
NextElementSeed ==
    /\ Running /\ Top.op = "elem"
    /\ \E a \in {is_append(mappings)} :
         IF a.err # "none" THEN Fail(a.m, a.err)
         ELSE IF a.v
         THEN Advance(a.m,
                      [ctl |-> <<FrameDe(Top.ty.of), Frame("elemval", Top.ty, Top.vals, 0)>>
                               \o Tail(ctl),
                       out |-> None])
         ELSE Advance(set_key(set_list(a.m, FALSE), None),
                      Deliver(Tail(ctl), Top.vals))

\* deserialize_map
DeserializeMap ==
    /\ Running /\ Top.op = "de" /\ Top.ty.k = "map"
    /\ \E n \in {MappingIter_next(mappings)} :
         Advance(push_stack(n[1], Branch_new),
                 [ctl |-> <<Frame("mkey", Top.ty, {}, 0)>> \o Tail(ctl),
                  out |-> None])

\* MapAccess::next_key_seed for a HashMap: the key is a String
NextKeySeedMap ==
    /\ Running /\ Top.op = "mkey"
    /\ \E b \in {check_branch_done(mappings)} :
         IF b.err # "none" THEN Fail(b.m, b.err)
         ELSE IF b.v THEN Advance(pop_stack(b.m), Deliver(Tail(ctl), Top.vals))
         ELSE Advance(b.m,
                      [ctl |-> <<FrameDe(TText), Frame("mkeyval", Top.ty, Top.vals, 0)>>
                               \o Tail(ctl),
                       out |-> None])

Decode ==
    \/ DeserializeStruct
    \/ NextKeySeed
    \/ DeserializeAny
    \/ DeserializeBool
    \/ DeserializeInt
    \/ DeserializeChar
    \/ DeserializeStr
    \/ DeserializeUnit
    \/ DeserializeOption
    \/ DeserializeSeq
    \/ NextElementSeed
    \/ DeserializeMap
    \/ NextKeySeedMap

(***************************************************************************)
(* ser.rs: to_string and the handlers of the serde traits                  *)
(***************************************************************************)

\* to_string, first of the value and then of what from_str made of its text
\* (tests/roundtrip.rs)
to_string ==
    /\ ~Running /\ ~Encoding
    /\ IsSome(value)
    /\ \/ Len(outs) = 0
       \/ Len(outs) = 1 /\ Len(results) = 1 /\ results[1].st = "ok"
    /\ ser' = Serializer_new(2)
    /\ sctl' = <<Frame("ser", shape,
                       IF Len(outs) = 0 THEN Unwrap(value) ELSE Unwrap(results[1].val),
                       0)>>
    /\ UNCHANGED <<ivars, shape, value, outs, docs, mappings, ctl, results>>

\* serialize_struct
SerializeStruct ==
    /\ Encoding /\ STop.op = "ser" /\ STop.ty.k = "rec"
    /\ SAdvance(Serializer_push_stack(ser),
                <<Frame("fields", STop.ty, STop.vals, 1)>> \o Tail(sctl))

\* SerializeStruct::serialize_field
SerializeField ==
    /\ Encoding /\ STop.op = "fields" /\ STop.idx <= Len(STop.ty.names)
    /\ \E r \in {ser_key(ser, STop.ty.names[STop.idx])} :
         IF r.err # "none" THEN SFail(r.s, r.err)
         ELSE SAdvance(r.s, <<Frame("ser", STop.ty.types[STop.idx],
                                    STop.vals[STop.idx], 0),
                              Frame("fields", STop.ty, STop.vals, STop.idx + 1)>>
                            \o Tail(sctl))

\* SerializeStruct::end
StructEnd ==
    /\ Encoding /\ STop.op = "fields" /\ STop.idx > Len(STop.ty.names)
    /\ SAdvance(Serializer_pop_stack(ser), Tail(sctl))

\* serialize_bool, serialize_i8 .. serialize_u64, serialize_char
SerializeItem ==
    /\ Encoding /\ STop.op = "ser" /\ STop.ty.k \in {"bool", "int", "char"}
    /\ \E r \in {ser_item(ser, CASE STop.ty.k = "bool" -> bool_write(STop.vals)
                                 [] STop.ty.k = "int" -> ToDec(STop.vals)
                                 [] STop.ty.k = "char" -> <<STop.vals>>)} :
         IF r.err # "none" THEN SFail(r.s, r.err)
         ELSE SAdvance(r.s, Tail(sctl))

\* serialize_str
SerializeStr ==
    /\ Encoding /\ STop.op = "ser" /\ STop.ty.k = "text"
    /\ \E r \in {serialize_str(ser, STop.vals)} :
         IF r.err # "none" THEN SFail(r.s, r.err)
         ELSE SAdvance(r.s, Tail(sctl))

\* serialize_none
SerializeNone ==
    /\ Encoding /\ STop.op = "ser" /\ STop.ty.k = "opt" /\ IsNone(STop.vals)
    /\ SAdvance(ser, Tail(sctl))

\* serialize_some
SerializeSome ==
    /\ Encoding /\ STop.op = "ser" /\ STop.ty.k = "opt" /\ IsSome(STop.vals)
    /\ SAdvance(set_modifier(ser, "Optional"),
                <<Frame("ser", STop.ty.of, Unwrap(STop.vals), 0)>> \o Tail(sctl))

\* serialize_seq
SerializeSeq ==
    /\ Encoding /\ STop.op = "ser" /\ STop.ty.k = "list"
    /\ SAdvance(set_modifier(ser, "List"),
                <<Frame("elems", STop.ty, STop.vals, 1)>> \o Tail(sctl))

\* SerializeSeq::serialize_element
SerializeElement ==
    /\ Encoding /\ STop.op = "elems" /\ STop.idx <= Len(STop.vals)
    /\ SAdvance(ser, <<Frame("ser", STop.ty.of, STop.vals[STop.idx], 0),
                       Frame("elems", STop.ty, STop.vals, STop.idx + 1)>>
                     \o Tail(sctl))

\* SerializeSeq::end
SeqEnd ==
    /\ Encoding /\ STop.op = "elems" /\ STop.idx > Len(STop.vals)
    /\ SAdvance(ser, Tail(sctl))

\* serialize_map
SerializeMap ==
    /\ Encoding /\ STop.op = "ser" /\ STop.ty.k = "map"
    /\ SAdvance(Serializer_push_stack(ser),
                <<Frame("entries", STop.ty, STop.vals, 0)>> \o Tail(sctl))

\* SerializeMap::serialize_key and serialize_value for the entry the
\* HashMap's iterator yields next, which may be any of those left
SerializeEntry ==
    /\ Encoding /\ STop.op = "entries"
    /\ \E e \in STop.vals :
         \E r \in {ser_key(ser, e[1])} :
           IF r.err # "none" THEN SFail(r.s, r.err)
           ELSE SAdvance(r.s, <<Frame("ser", TText, e[2], 0),
                                Frame("entries", STop.ty, STop.vals \ {e}, 0)>>
                              \o Tail(sctl))

\* SerializeMap::end
MapEnd ==
    /\ Encoding /\ STop.op = "entries" /\ STop.vals = {}
    /\ SAdvance(Serializer_pop_stack(ser), Tail(sctl))

Encode ==
    \/ SerializeStruct
    \/ SerializeField
    \/ StructEnd
    \/ SerializeItem
    \/ SerializeStr
    \/ SerializeNone
    \/ SerializeSome
    \/ SerializeSeq
    \/ SerializeElement
    \/ SeqEnd
    \/ SerializeMap
    \/ SerializeEntry
    \/ MapEnd

(***************************************************************************)
(* The host types, documents and values the behaviours start from          *)
(***************************************************************************)

\* lines drawn from a pool per document
MaxLines == 3

\* elements per list of an encoded value
MaxLen == 2

I8 == TInt(-128, 127)

SeqsUpTo(S, n) == UNION {[1..k -> S] : k \in 0..n}

\* the lines of a document, each ended by a linefeed
RECURSIVE Unlines(_)
Unlines(ls) ==
    IF Len(ls) = 0 THEN <<>> ELSE ls[1] \o <<"\n">> \o Unlines(Tail(ls))

Documents(pool) == {Unlines(ls) : ls \in SeqsUpTo(pool, MaxLines)}

\* struct A { a: i8, t: String }
ShapeA == TRec(<<Chars("a"), Chars("t")>>, <<I8, TText>>)

PoolA ==
    {Chars("a: 1"), Chars("t: x"), Chars("c: 2"), Chars("b"), Chars(" a: 1"),
     Chars("t:>y"), Chars(":::")}

\* documents for ShapeA behind a schema prelude
PoolSchema == {Chars("a: 1"), Chars("t: x"), Chars("c: 2")}

SchemaDocuments ==
    {Chars(":::\na: int\nt: text\n:::\n") \o Unlines(ls) :
        ls \in SeqsUpTo(PoolSchema, MaxLines - 1)}

\* struct N { n: F, z: Option<i8> } with struct F { f: first, g: i8, h: Option<String> }
ShapeN(first) ==
    TRec(<<Chars("n"), Chars("z")>>,
         <<TRec(<<Chars("f"), Chars("g"), Chars("h")>>, <<first, I8, TOpt(TText)>>),
           TOpt(I8)>>)

PoolN ==
    {Chars("n:"), Chars("n: 1"), Chars("  f: 2"), Chars("  g: 3"), Chars("  h: x"),
     Chars("z: 5")}

\* the inline form of a record field and the rest of its fields, for ShapeN
InlineDocuments ==
    {Unlines(<<Chars("n: 1")>> \o ls \o tl) :
        ls \in SeqsUpTo({Chars("  g: 3"), Chars("  h: x")}, MaxLines - 1),
        tl \in {<<>>, <<Chars("z: 5")>>}}

\* `key: V` rewritten to `key:` and `f: V` one level deeper, for ShapeN
NestedForm(doc) == Chars("n:\n  f: ") \o Skip(doc, 3)

\* struct L { l: Vec<elem>, z: Option<i8> }
ShapeL(elem) == TRec(<<Chars("l"), Chars("z")>>, <<TList(elem), TOpt(I8)>>)

PoolL ==
    {Chars("l: 1"), Chars("l: 2 3"), Chars(" : 4"), Chars(" : 5 6"), Chars("z: 7")}

PoolLT ==
    {Chars("l: a b"), Chars("l:=c d"), Chars(" :=e"), Chars("l:>f g"), Chars(" :>h"),
     Chars(" : i")}

\* struct T { t: String, u: Option<String>, c: Option<char> }
ShapeT ==
    TRec(<<Chars("t"), Chars("u"), Chars("c")>>, <<TText, TOpt(TText), TOpt(TChar)>>)

PoolT ==
    {Chars("t: a"), Chars("t:>b c"), Chars(" :>d"), Chars("t:=e"), Chars("u: f"),
     Chars("u:>g"), Chars("c: h")}

\* struct M { m: HashMap<String, String>, a: Option<bool> }
ShapeM == TRec(<<Chars("m"), Chars("a")>>, <<TMap, TOpt(TBool)>>)

PoolM == {Chars("m:"), Chars("  k: v"), Chars("  j: w"), Chars("a: true")}

\* struct C { c: char, z: Option<i8> }
ShapeC == TRec(<<Chars("c"), Chars("z")>>, <<TChar, TOpt(I8)>>)

PoolC ==
    {Chars("c: h"), Chars("c:"), Chars("c: hh"), Chars(" :>"), Chars(" :>x"),
     Chars("z: 5")}

\* struct U { l: Vec<()>, z: Option<i8> }
ShapeU == TRec(<<Chars("l"), Chars("z")>>, <<TList(TUnit), TOpt(I8)>>)

PoolU == {Chars("l: x"), Chars("z: 5")}

\* struct I { a: i8, b: i8, c: i8 }
ShapeI == TRec(<<Chars("a"), Chars("b"), Chars("c")>>, <<I8, I8, I8>>)

PoolI == {Chars("a: 1"), Chars("  x: 2"), Chars("    y: 3")}

Case(sh, v, ds) == [shape |-> sh, value |-> v, docs |-> ds]

\* the cases a decode starts from, grouped by host type and pool
DecodeCases ==
    {   {Case(ShapeA, None, <<d>>) : d \in Documents(PoolA)},
        {Case(ShapeA, None, <<d>>) : d \in SchemaDocuments},
        {Case(ShapeN(I8), None, <<d>>) : d \in Documents(PoolN)},
        {Case(ShapeN(first), None, <<d, NestedForm(d)>>) :
            first \in {I8, TText}, d \in InlineDocuments},
        {Case(ShapeN(first), None, <<d>>) :
            first \in {TOpt(I8), TList(I8)}, d \in Documents(PoolN)},
        {Case(ShapeL(I8), None, <<d>>) : d \in Documents(PoolL)},
        {Case(ShapeL(TText), None, <<d>>) : d \in Documents(PoolLT)},
        {Case(ShapeT, None, <<d>>) : d \in Documents(PoolT)},
        {Case(ShapeM, None, <<d>>) : d \in Documents(PoolM)},
        {Case(ShapeC, None, <<d>>) : d \in Documents(PoolC)},
        {Case(ShapeI, None, <<d>>) : d \in Documents(PoolI)},
        {Case(ShapeU, None, <<d>>) : d \in Documents(PoolU)}}

\* the values of a host type that the round trip starts from
Texts == {Chars(""), Chars("a"), Chars("b c"), Chars("d\ne")}

Ints == {-5, 12}

RECURSIVE Values(_), FieldValues(_)
Values(ty) ==
    CASE ty.k = "bool" -> BOOLEAN
      [] ty.k = "int" -> Ints
      [] ty.k = "text" -> Texts
      [] ty.k = "char" -> {"x", "y"}
      [] ty.k = "opt" -> {None} \cup {Some(v) : v \in Values(ty.of)}
      [] ty.k = "list" -> SeqsUpTo(Values(ty.of), MaxLen)
      [] ty.k = "map" -> SUBSET {<<Chars("k"), Chars("v")>>, <<Chars("j"), Chars("w")>>}
      [] ty.k = "rec" -> FieldValues(ty.types)

\* the values of a record: one value per field, in declaration order
FieldValues(types) ==
    IF Len(types) = 0 THEN {<<>>}
    ELSE {<<v>> \o rest : v \in Values(types[1]), rest \in FieldValues(Tail(types))}

\* struct R1 { n: F1, o: Option<i8> } with struct F1 { t: String, i: i8 }
ShapeR1 ==
    TRec(<<Chars("n"), Chars("o")>>,
         <<TRec(<<Chars("t"), Chars("i")>>, <<TText, I8>>), TOpt(I8)>>)

\* struct R2 { l: Vec<String>, b: bool }
ShapeR2 == TRec(<<Chars("l"), Chars("b")>>, <<TList(TText), TBool>>)

\* struct R3 { o: Option<Vec<i8>>, c: char }
ShapeR3 == TRec(<<Chars("o"), Chars("c")>>, <<TOpt(TList(I8)), TChar>>)

\* struct R4 { b: bool, m: HashMap<String, String> }
ShapeR4 == TRec(<<Chars("b"), Chars("m")>>, <<TBool, TMap>>)

\* struct R5 { n: F5 } with struct F5 { o: Option<i8>, p: Option<i8> }
ShapeR5 ==
    TRec(<<Chars("n")>>,
         <<TRec(<<Chars("o"), Chars("p")>>, <<TOpt(I8), TOpt(I8)>>)>>)

\* struct R6 { n: F6 } with struct F6 { l: Vec<i8>, i: i8 }
ShapeR6 ==
    TRec(<<Chars("n")>>,
         <<TRec(<<Chars("l"), Chars("i")>>, <<TList(I8), I8>>)>>)

\* struct R7 { n: F7 } with struct F7 { m: G7 } and struct G7 { o: Option<i8> }
ShapeR7 ==
    TRec(<<Chars("n")>>,
         <<TRec(<<Chars("m")>>, <<TRec(<<Chars("o")>>, <<TOpt(I8)>>)>>)>>)

\* struct R8 { l: Vec<i8>, t: String }
ShapeR8 == TRec(<<Chars("l"), Chars("t")>>, <<TList(I8), TText>>)

EncodeShapes ==
    {ShapeR1, ShapeR2, ShapeR3, ShapeR4, ShapeR5, ShapeR6, ShapeR7, ShapeR8}

Init ==
    /\ \/ \E cases \in DecodeCases : \E c \in cases :
            shape = c.shape /\ value = c.value /\ docs = c.docs
       \/ \E sh \in EncodeShapes : \E v \in Values(sh) :
            shape = sh /\ value = Some(v) /\ docs = <<>>
    /\ ser = Serializer_new(2)
    /\ sctl = <<>>
    /\ outs = <<>>
    /\ mappings = Deserializer_new(<<>>)
    /\ ctl = <<>>
    /\ results = <<>>
    /\ li = LineIter_new(<<>>)
    /\ li_ret = <<>>
    /\ di = DefIter_new(<<>>)
    /\ di_ret = <<>>
    /\ call = NoCall
    /\ ret = <<>>

Next ==
    \/ from_str
    \/ Decode
    \/ to_string
    \/ Encode

Spec == Init /\ [][Next]_vars

(***************************************************************************)
(* lines.rs mod test: LineIter and DefIter driven call by call             *)
(***************************************************************************)

\* characters per generated line
MaxChars == 4

\* lines drawn from a pool per iterator input
MaxIterLines == 3

\* calls of next() made beyond the number of linefeeds of the input
ExtraCalls == 2

\* the characters the tokenizer tells apart, and one it does not
Alphabet == {"a", " ", ":", ">", "=", "\""}

\* every single line over the alphabet, ended by a linefeed
GeneratedLines == {l \o <<"\n">> : l \in SeqsUpTo(Alphabet, MaxChars)}

\* lines of test::valid_li and test::invalid_li, and two quoted keys
PoolLI ==
    {Chars("a: 1"), Chars("b"), Chars(":x"), Chars(""), Chars("# c"),
     Chars("\"a\"\"b:\":=1"), Chars("\"a\"b: 1")}

\* what may follow the last linefeed
Fragments == {Chars(""), Chars("c: 2")}

\* the inputs handed to LineIter::new, grouped by how they are made
LineInputs ==
    {   GeneratedLines,
        {Unlines(ls) \o f : ls \in SeqsUpTo(PoolLI, MaxIterLines), f \in Fragments}}

\* keys at every indent of test::def_iter2, and a line the tokenizer rejects
PoolIndent ==
    {Chars("a: 1"), Chars(" b: 1"), Chars("  c: 1"), Chars("   d: 1"),
     Chars("    e: 1"), Chars("     f: 1"), Chars("b")}

\* blank keys of every width after keys of test::def_iter
PoolAppend ==
    {Chars("a: 1"), Chars("ab: 1"), Chars("  c: 1"), Chars(" : x"), Chars("  :>x"),
     Chars("   : x"), Chars("    :=x")}

\* schema separators around lines that are both a schema node and a definition
PoolSeparator == {Chars(":::"), Chars("a: text"), Chars("  c: int")}

\* the inputs handed to DefIter::new, grouped by pool
DefInputs ==
    {   {Unlines(ls) : ls \in SeqsUpTo(PoolIndent, MaxIterLines)},
        {Unlines(ls) : ls \in SeqsUpTo(PoolAppend, MaxIterLines)},
        {Unlines(ls) : ls \in SeqsUpTo(PoolSeparator, MaxIterLines + 2)}}

Linefeeds(s) == Cardinality({i \in 1..Len(s) : s[i] = "\n"})

IterInit ==
    /\ \/ \E inputs \in LineInputs : \E input \in inputs : docs = <<input, <<>>>>
       \/ \E inputs \in DefInputs : \E input \in inputs : docs = <<<<>>, input>>
    /\ li = LineIter_new(docs[1])
    /\ li_ret = <<>>
    /\ di = DefIter_new(docs[2])
    /\ di_ret = <<>>
    /\ call = NoCall
    /\ ret = <<>>
    /\ shape = ShapeA
    /\ value = None
    /\ ser = Serializer_new(2)
    /\ sctl = <<>>
    /\ outs = <<>>
    /\ mappings = Deserializer_new(<<>>)
    /\ ctl = <<>>
    /\ results = <<>>

\* li.next(), in a test that drives the LineIter only
LineIterNext ==
    /\ docs[2] = <<>> /\ Len(di_ret) = 0
    /\ Len(li_ret) < Linefeeds(docs[1]) + ExtraCalls
    /\ \E r \in {LineIter_next(li)} :
          /\ li' = r[1]
          /\ li_ret' = Append(li_ret, [out |-> r[2], li |-> r[1]])
    /\ UNCHANGED <<shape, value, ser, sctl, outs, docs, mappings, ctl, results, di, di_ret,
                   call, ret>>

\* di.next(), in a test that drives the DefIter only
DefIterNext ==
    /\ docs[1] = <<>> /\ Len(li_ret) = 0
    /\ Len(di_ret) < Linefeeds(docs[2]) + ExtraCalls
    /\ \E r \in {DefIter_next(di)} :
          /\ di' = r[1]
          /\ di_ret' = Append(di_ret, [out |-> r[2], di |-> r[1]])
    /\ UNCHANGED <<shape, value, ser, sctl, outs, docs, mappings, ctl, results, li, li_ret,
                   call, ret>>

IterNext ==
    \/ LineIterNext
    \/ DefIterNext

IterSpec == IterInit /\ [][IterNext]_vars

\* ------------------------------------------------------------------------
\* Properties
\* ------------------------------------------------------------------------

\* a shape built of scalars, text, lists, optionals and nested records only
RECURSIVE Representable(_)
Representable(ty) ==
    CASE ty.k = "map" -> FALSE
      [] ty.k \in {"opt", "list"} -> Representable(ty.of)
      [] ty.k = "rec" -> \A i \in 1..Len(ty.types) : Representable(ty.types[i])
      [] OTHER -> TRUE

\* the physical lines of a document, without their linefeeds
Lines(doc) ==
    IF Len(doc) = 0 THEN <<>> ELSE SplitOn(SubSeq(doc, 1, Len(doc) - 1), "\n")

\* the key a physical line spells: what stands between its leading spaces
\* and its first colon
LineKey(line) ==
    Take(Skip(line, LeadingSpaces(line)),
         Max(Find(Skip(line, LeadingSpaces(line)), ":"), 1) - 1)

\* the keys spelled anywhere in a document
DocKeys(doc) == {LineKey(Lines(doc)[i]) : i \in 1..Len(Lines(doc))}

\* the declared fields of a record shape that the input has to spell: the
\* text, int, bool and record fields at every depth, except a nested
\* record's first field, which an inline value may fill
RECURSIVE Required(_)
Required(ty) ==
    UNION {(IF ty.types[i].k \in {"text", "int", "bool", "rec"}
            THEN {ty.names[i]} ELSE {})
           \cup (IF ty.types[i].k = "rec"
                 THEN Required(ty.types[i]) \ {ty.types[i].names[1]}
                 ELSE {}) : i \in 1..Len(ty.types)}

\* C1: round trip. For every host value of a representable shape, decoding
\* the text that to_string produced for it succeeds and gives the value back.
C1_RoundTrip ==
    IsSome(value) /\ Representable(shape) /\ Len(results) >= 1
        => results[1] = Ok(Unwrap(value))

\* C2: canonical idempotence. For every text that to_string produced for a
\* value of a representable shape, from_str of the text succeeds and
\* to_string of the decoded value gives the same text again, byte for byte.
C2_CanonicalIdempotence ==
    IsSome(value) /\ Representable(shape) /\ Len(results) >= 1
        => /\ results[1].st = "ok"
           /\ Len(outs) >= 2 => outs[2] = outs[1]

\* C3: a document that spells no line for some required text, int, bool or
\* record field of the target shape is never decoded to Ok: the field is
\* not filled from elsewhere.
C3_MissingField ==
    \A i \in 1..Len(results) :
        /\ Representable(shape)
        /\ \E k \in Required(shape) : k \notin DocKeys(docs[i])
        => results[i].st # "ok"

\* C4: when a decode has ended and the last line the resolver pulled was
\* rejected by the tokenizer or the resolver, from_str returned Err with
\* that error kind, never Ok.
C4_LineErrorPropagates ==
    ~Running /\ Len(results) > 0 /\ mappings.defs.error # "none"
        => results[Len(results)] = Err(mappings.defs.error)

\* the record shapes with a nested record as their first field
NestedShapes == {ShapeN(I8), ShapeN(TText), ShapeN(TOpt(I8)), ShapeN(TList(I8))}

\* the kind of the first declared field of the nested record
FirstKind == shape.types[1].types[1].k

\* the document opens with the nested record's key carrying an inline value
Inline(doc) == Len(Lines(doc)) > 0 /\ Lines(doc)[1] = Chars("n: 1")

\* the inline value as the first field's type reads it
InlineValue == IF FirstKind = "int" THEN 1 ELSE Chars("1")

\* C5: substitution. A branch's substitute is only ever its first declared
\* field; a document opening with `n: 1` for a record-typed field n decodes,
\* when it decodes, with the inline value in the record's first field if
\* that field is an int or a text, and fails with InvalidSubstitute if the
\* first field is Optional or a list.
C5_Substitute ==
    /\ \A j \in 1..Len(mappings.stack) :
          IsSome(mappings.stack[j].substitute)
              => mappings.stack[j].substitute = first_field(mappings.stack[j])
    /\ \A i \in 1..Len(results) :
          shape \in NestedShapes /\ Inline(docs[i])
              => IF FirstKind \in {"opt", "list"}
                 THEN results[i] = Err("InvalidSubstitute")
                 ELSE results[i].st = "ok"
                          => results[i].val[1][1][1] = InlineValue

\* an inline value on an Optional or list first field was refused
C5_Witness ==
    \E i \in 1..Len(results) :
        /\ shape \in NestedShapes /\ Inline(docs[i])
        /\ FirstKind \in {"opt", "list"}
        /\ results[i] = Err("InvalidSubstitute")

\* C6: for a record-typed field n whose first declared field f is an int or
\* a text, the document `n: V` followed by the remaining fields one level
\* deeper decodes to the same result as `n:` followed by `f: V` and the same
\* remaining fields.
C6_InlineEquivalence ==
    Len(docs) = 2 /\ docs[2] = NestedForm(docs[1]) /\ Len(results) = 2
        => results[1] = results[2]

\* both forms were decoded and the inline form gave a value
C6_Witness ==
    /\ Len(docs) = 2 /\ docs[2] = NestedForm(docs[1]) /\ Len(results) = 2
    /\ results[1].st = "ok"

\* a line of the list field l with the Normal separator, under its own key
\* or a blank key
ListLine(line) ==
    Len(line) >= 4 /\ line[1] \in {"l", " "} /\ line[2] = ":" /\ line[3] = " "

ZLine == Chars("z: 7")

ListLines(doc) == SelectSeq(Lines(doc), ListLine)

\* the document distributes the elements of l over consecutive lines, the
\* first under the key itself, with at most the field z after them
Distribution(doc) ==
    /\ Len(ListLines(doc)) > 0
    /\ ListLines(doc)[1][1] = "l"
    /\ \A j \in 1..Len(Lines(doc)) :
          \/ ListLine(Lines(doc)[j])
          \/ Lines(doc)[j] = ZLine /\ j = Len(Lines(doc))

\* the space-free elements of the lines, in input order
RECURSIVE Elements(_)
Elements(ls) ==
    IF Len(ls) = 0 THEN <<>>
    ELSE SplitOn(Skip(ls[1], 3), " ") \o Elements(Tail(ls))

\* the number a one-digit element spells
DigitOf(e) == CHOOSE n \in 0..9 : ToDec(n) = e

\* what a distribution decodes to: its elements in order, whatever the lines
\* they stand on
ListExpected(doc) ==
    Ok(<<[j \in 1..Len(Elements(ListLines(doc))) |->
            DigitOf(Elements(ListLines(doc))[j])],
         IF Last(Lines(doc)) = ZLine THEN Some(7) ELSE None>>)

\* C7: a list field with the Normal separator decodes to the sequence of its
\* space-free elements in input order, however they are distributed over one
\* line or several consecutive same-key or blank-key lines of the same depth.
C7_ListDistribution ==
    \A i \in 1..Len(results) :
        shape = ShapeL(I8) /\ Distribution(docs[i])
            => results[i] = ListExpected(docs[i])

\* four or more elements spread over three lines were decoded
C7_Witness ==
    \E i \in 1..Len(results) :
        /\ shape = ShapeL(I8) /\ Distribution(docs[i])
        /\ Len(ListLines(docs[i])) = 3
        /\ Len(Elements(ListLines(docs[i]))) >= 4
        /\ results[i] = ListExpected(docs[i])

\* a line of the list field l with any separator
TextListLine(line) ==
    /\ Len(line) >= 4 /\ line[1] \in {"l", " "} /\ line[2] = ":"
    /\ line[3] \in {" ", "=", ">"}

\* a document of lines of the list field l only, the first under the key
TextListDoc(doc) ==
    /\ Len(Lines(doc)) > 0
    /\ Lines(doc)[1][1] = "l"
    /\ \A j \in 1..Len(Lines(doc)) : TextListLine(Lines(doc)[j])

\* the elements a text list is expected to have: a Normal line gives its
\* space-separated words, a TextValue line its whole value, a TextAppend
\* line extends the preceding element by a newline and its whole value
RECURSIVE FoldText(_, _)
FoldText(ls, acc) ==
    IF Len(ls) = 0 THEN acc
    ELSE FoldText(Tail(ls),
            CASE ls[1][3] = " " -> acc \o SplitOn(Skip(ls[1], 3), " ")
              [] ls[1][3] = "=" -> Append(acc, Skip(ls[1], 3))
              [] ls[1][3] = ">" ->
                    IF Len(acc) = 0 THEN <<Skip(ls[1], 3)>>
                    ELSE [acc EXCEPT
                            ![Len(acc)] = @ \o <<"\n">> \o Skip(ls[1], 3)])

\* C8: in a list of text, a TextValue line gives exactly one element, its
\* whole value with its spaces, and a TextAppend line is joined by a newline
\* onto the preceding element; neither is split on spaces.
C8_TextList ==
    \A i \in 1..Len(results) :
        shape = ShapeL(TText) /\ TextListDoc(docs[i])
            => results[i] = Ok(<<FoldText(Lines(docs[i]), <<>>), None>>)

\* a TextValue line followed by a TextAppend line was decoded
C8_Witness ==
    \E i \in 1..Len(results) :
        /\ shape = ShapeL(TText) /\ TextListDoc(docs[i])
        /\ \E j \in 1..(Len(Lines(docs[i])) - 1) :
              Lines(docs[i])[j][3] = "=" /\ Lines(docs[i])[j + 1][3] = ">"
        /\ results[i] = Ok(<<FoldText(Lines(docs[i]), <<>>), None>>)

\* the key line j of a document stands under: its own, or for a blank key
\* that of the line before
RECURSIVE KeyAt(_, _)
KeyAt(ls, j) == IF ls[j][1] = " " /\ j > 1 THEN KeyAt(ls, j - 1) ELSE ls[j][1]

\* line j carries on the definition before it: same key, TextAppend
Continues(ls, j) ==
    j > 1 /\ KeyAt(ls, j) = KeyAt(ls, j - 1) /\ ls[j][3] = ">"

\* a document of the fields t, u and c of ShapeT, each spelled once as a
\* definition followed by its TextAppend continuations (none for the char c),
\* with t among them
TextBlocks(doc) ==
    /\ Len(Lines(doc)) > 0
    /\ \A j \in 1..Len(Lines(doc)) :
          /\ Lines(doc)[j][1] # " " \/ j > 1
          /\ \/ Continues(Lines(doc), j) /\ KeyAt(Lines(doc), j) # "c"
             \/ /\ Lines(doc)[j][1] # " "
                /\ \A h \in 1..(j - 1) : KeyAt(Lines(doc), h) # Lines(doc)[j][1]
    /\ \E j \in 1..Len(Lines(doc)) : Lines(doc)[j][1] = "t"

\* the values of the lines under key k from line j on, joined by "\n"
RECURSIVE Joined(_, _, _)
Joined(ls, j, k) ==
    IF j > Len(ls) THEN <<>>
    ELSE IF KeyAt(ls, j) # k THEN Joined(ls, j + 1, k)
    ELSE IF \E h \in (j + 1)..Len(ls) : KeyAt(ls, h) = k
    THEN Skip(ls[j], 3) \o <<"\n">> \o Joined(ls, j + 1, k)
    ELSE Skip(ls[j], 3)

HasKey(ls, k) == \E j \in 1..Len(ls) : KeyAt(ls, j) = k

\* what such a document decodes to when every text takes its own definition
\* and continuations and nothing else
TextExpected(doc) ==
    Ok(<<Joined(Lines(doc), 1, "t"),
         IF HasKey(Lines(doc), "u")
         THEN Some(Joined(Lines(doc), 1, "u")) ELSE None,
         IF HasKey(Lines(doc), "c")
         THEN Some(Joined(Lines(doc), 1, "c")[1]) ELSE None>>)

\* C9: a text scalar takes its field's definition and every immediately
\* following TextAppend definition of the same key and depth, joined by "\n"
\* in input order, and no other definition: the fields spelled after it are
\* decoded from their own lines.
C9_TextAppend ==
    \A i \in 1..Len(results) :
        shape = ShapeT /\ TextBlocks(docs[i])
            => results[i] = TextExpected(docs[i])

\* a text with one continuation, followed by another field, was decoded
C9_Witness ==
    \E i \in 1..Len(results) :
        /\ shape = ShapeT /\ TextBlocks(docs[i])
        /\ Len(Lines(docs[i])) = 3
        /\ Continues(Lines(docs[i]), 2) /\ ~Continues(Lines(docs[i]), 3)
        /\ results[i] = TextExpected(docs[i])

\* the schema prelude of the documents of SchemaDocuments
Prelude == Chars(":::\na: int\nt: text\n:::\n")

HasPrelude(doc) == Len(doc) >= Len(Prelude) /\ Take(doc, Len(Prelude)) = Prelude

\* the document without its schema prelude
Body(doc) == IF HasPrelude(doc) THEN Skip(doc, Len(Prelude)) ELSE doc

\* the first definition of the document, at depth 0, has the key c, which
\* the record A { a, t } does not declare
Undeclared(doc) ==
    Len(Lines(Body(doc))) > 0 /\ Lines(Body(doc))[1] = Chars("c: 2")

\* C10: a key at the matching depth that a typed record does not declare
\* makes decode fail with UnexpectedKey, with or without a schema prelude,
\* and a decode into a dynamic branch never fails with UnexpectedKey.
C10_UnexpectedKey ==
    \A i \in 1..Len(results) :
        /\ shape = ShapeA /\ Undeclared(docs[i])
              => results[i] = Err("UnexpectedKey")
        /\ shape = ShapeM => results[i].err # "UnexpectedKey"


\* ------------------------------------------------------------------------
\* Properties of the iterators
\* ------------------------------------------------------------------------

\* the DefIter as call k of di.next() found it
DiBefore(k) == IF k = 1 THEN DefIter_new(docs[2]) ELSE di_ret[k - 1].di

\* the number of lines call k of di.next() consumed
DiConsumed(k) ==
    Linefeeds(DiBefore(k).lines.input) - Linefeeds(di_ret[k].di.lines.input)

\* the last line call k of di.next() consumed, as the input spells it
DiLine(dl, k) ==
    dl[Linefeeds(docs[2]) - Linefeeds(di_ret[k].di.lines.input)]

\* the calls of di.next() that consumed one line and so answer for it alone
DiCalls == {k \in 1..Len(di_ret) : DiConsumed(k) = 1}

\* a line that spells a key with a character other than a space in it
NonBlankKey(line) ==
    /\ LeadingSpaces(line) < Len(line)
    /\ line[LeadingSpaces(line) + 1] \notin {":", "#"}
    /\ Find(line, ":") > 0

\* the DefIter hands the next definition to its schema rather than to the caller
Diverting(d) ==
    IsNone(d.define) /\ IsSome(d.schema) /\ ~Unwrap(d.schema).finished

\* C11: once the indent unit u is known, a line whose non-blank key has a
\* number of leading spaces that is no multiple of u makes di.next() return
\* None with InvalidIndent, and a line with k*u leading spaces that is not
\* handed to an open schema makes it return a Definition of depth k whose key
\* is the key without its leading spaces.
C11_IndentMultiple ==
    LET dl == Lines(docs[2])
    IN
    \A k \in DiCalls :
        IsSome(DiBefore(k).indent_spaces) /\ NonBlankKey(DiLine(dl, k)) =>
            LET u == Unwrap(DiBefore(k).indent_spaces)
                s == LeadingSpaces(DiLine(dl, k))
            IN  IF s % u # 0
                THEN /\ di_ret[k].out = None
                     /\ di_ret[k].di.error = "InvalidIndent"
                ELSE ~Diverting(DiBefore(k)) =>
                        /\ IsSome(di_ret[k].out)
                        /\ Unwrap(di_ret[k].out).indent = s \div u
                        /\ Unwrap(di_ret[k].out).key = LineKey(DiLine(dl, k))

\* a unit of 2 was learned, a key behind 3 spaces was refused and a key behind
\* 4 spaces was returned at depth 2
C11_Witness ==
    LET dl == Lines(docs[2])
    IN
    \E j, k \in DiCalls :
        /\ DiBefore(j).indent_spaces = Some(2) /\ DiBefore(k).indent_spaces = Some(2)
        /\ NonBlankKey(DiLine(dl, j)) /\ LeadingSpaces(DiLine(dl, j)) = 3
        /\ di_ret[j].di.error = "InvalidIndent"
        /\ NonBlankKey(DiLine(dl, k)) /\ LeadingSpaces(DiLine(dl, k)) = 4
        /\ IsSome(di_ret[k].out) /\ Unwrap(di_ret[k].out).indent = 2


\* C12: while the indent unit is unset, a line whose key has n > 0 leading
\* spaces before a character that is no space sets the unit to n when n is 2,
\* 3 or 4, and otherwise makes di.next() return None with InvalidIndent and
\* leaves the unit unset; no other line sets the unit, and a unit once set
\* stays as it is.
C12_IndentUnit ==
    LET dl == Lines(docs[2])
    IN
    \A k \in 1..Len(di_ret) :
        /\ IsSome(DiBefore(k).indent_spaces) =>
              di_ret[k].di.indent_spaces = DiBefore(k).indent_spaces
        /\ DiConsumed(k) = 1 /\ IsNone(DiBefore(k).indent_spaces) =>
              LET n == LeadingSpaces(DiLine(dl, k))
              IN  IF NonBlankKey(DiLine(dl, k)) /\ n > 0
                  THEN IF n \in 2..4
                       THEN di_ret[k].di.indent_spaces = Some(n)
                       ELSE /\ di_ret[k].di.indent_spaces = None
                            /\ di_ret[k].out = None
                            /\ di_ret[k].di.error = "InvalidIndent"
                  ELSE di_ret[k].di.indent_spaces = None

\* a key behind 5 spaces was refused and left the unit unset, and a later key
\* behind 3 spaces set the unit to 3
C12_Witness ==
    LET dl == Lines(docs[2])
    IN
    \E j, k \in DiCalls :
        /\ j < k
        /\ NonBlankKey(DiLine(dl, j)) /\ LeadingSpaces(DiLine(dl, j)) = 5
        /\ di_ret[j].di.error = "InvalidIndent"
        /\ IsNone(DiBefore(k).indent_spaces)
        /\ NonBlankKey(DiLine(dl, k)) /\ LeadingSpaces(DiLine(dl, k)) = 3
        /\ di_ret[k].di.indent_spaces = Some(3)


\* a line whose key is all spaces
BlankKey(line) ==
    /\ LeadingSpaces(line) \in 1..(Len(line) - 2)
    /\ line[LeadingSpaces(line) + 1] = ":"

\* the separator a line spells after the colon that ends its key
SeparatorOf(line, colon) ==
    CASE line[colon + 1] = " " -> "Normal"
      [] line[colon + 1] = ">" -> "TextAppend"
      [] line[colon + 1] = "=" -> "TextValue"

\* the calls before call k of di.next() that returned a Definition
Emitted(k) == {j \in 1..(k - 1) : IsSome(di_ret[j].out)}

\* the Definition returned last before call k
LastEmitted(k) ==
    Unwrap(di_ret[CHOOSE j \in Emitted(k) : \A i \in Emitted(k) : i <= j].out)

\* the width that continues the Definition returned last before call k
ContinuationWidth(k) ==
    LastEmitted(k).indent
        * (IF IsSome(DiBefore(k).indent_spaces) THEN Unwrap(DiBefore(k).indent_spaces) ELSE 0)
        + Len(LastEmitted(k).key)

\* C13: a line whose key is all spaces makes di.next() return a Definition
\* only if a Definition was returned before and the number of spaces equals
\* depth * unit + key length of the Definition returned last; the result then
\* has that Definition's depth and key and the line's separator and value.
\* Otherwise di.next() returns None with InvalidIndent.
C13_BlankKey ==
    LET dl == Lines(docs[2])
    IN
    \A k \in DiCalls :
        BlankKey(DiLine(dl, k)) =>
            LET n == LeadingSpaces(DiLine(dl, k))
            IN  IF Emitted(k) # {} /\ n = ContinuationWidth(k)
                THEN di_ret[k].out =
                        Some(Define(LastEmitted(k).indent, LastEmitted(k).key,
                                    SeparatorOf(DiLine(dl, k), n + 1),
                                    Skip(DiLine(dl, k), n + 2)))
                ELSE /\ di_ret[k].out = None
                     /\ di_ret[k].di.error = "InvalidIndent"

\* a blank key of 3 spaces continued the key c of depth 1 under a unit of 2,
\* and a blank key of another width was refused after it
C13_Witness ==
    LET dl == Lines(docs[2])
    IN
    \E j, k \in DiCalls :
        /\ j < k
        /\ BlankKey(DiLine(dl, j)) /\ LeadingSpaces(DiLine(dl, j)) = 3
        /\ IsSome(di_ret[j].out)
        /\ Unwrap(di_ret[j].out).indent = 1 /\ Unwrap(di_ret[j].out).key = Chars("c")
        /\ BlankKey(DiLine(dl, k)) /\ LeadingSpaces(DiLine(dl, k)) # 3
        /\ di_ret[k].di.error = "InvalidIndent"


\* the calls of li.next() that met a line: call k met line k
LiCalls == 1..Min(Len(li_ret), Linefeeds(docs[1]))

\* the LineIter as call k of li.next() found it
LiBefore(k) == IF k = 1 THEN LineIter_new(docs[1]) ELSE li_ret[k - 1].li

\* C14: when the text left to a LineIter is not empty and holds no linefeed,
\* li.next() returns None with MissingLinefeed and leaves the text as it is,
\* and so does every later call.
C14_MissingLinefeed ==
    \A k \in 1..Len(li_ret) :
        Len(LiBefore(k).input) > 0 /\ Find(LiBefore(k).input, "\n") = 0 =>
            \A j \in k..Len(li_ret) :
                /\ li_ret[j].out = None
                /\ li_ret[j].li.error = "MissingLinefeed"
                /\ li_ret[j].li.input = LiBefore(k).input

\* a line was returned, and two calls met the text after the last linefeed
C14_Witness ==
    /\ Len(li_ret) >= 3
    /\ IsSome(li_ret[1].out)
    /\ Len(li_ret[1].li.input) > 0 /\ Find(li_ret[1].li.input, "\n") = 0
    /\ li_ret[3].li.error = "MissingLinefeed"


\* C15 as claimed: once a call of next() reported the tokenizer's error for a
\* malformed line, no later call of next() on that iterator returns a Line or
\* a Definition.
C15_FailFast ==
    /\ \A j, k \in 1..Len(li_ret) :
          j < k /\ li_ret[j].li.error # "none" => li_ret[k].out = None
    /\ \A j, k \in 1..Len(di_ret) :
          j < k /\ di_ret[j].di.lines.error # "none" => di_ret[k].out = None

\* C15 amended: a call of next() that meets a malformed line returns None with
\* that line's error kind and consumes the line, and the calls after it go on
\* with the lines that follow: call k of li.next() returns what line k alone
\* tokenizes to, and di.next() returns the Definition of a well-formed line
\* without indent, whatever errors were reported before.
C15_Resumes ==
    LET ll == SplitOn(docs[1], "\n")
        dl == Lines(docs[2])
    IN
    /\ \A k \in LiCalls :
          LET alone == Line_new(ll[k])
          IN  /\ li_ret[k].li.error = alone.err
              /\ li_ret[k].out = IF alone.ok THEN Some(alone) ELSE None
    /\ \A k \in DiCalls :
          LET line == DiLine(dl, k)
              alone == Line_new(line)
          IN  /\ ~alone.ok =>
                    /\ di_ret[k].out = None
                    /\ di_ret[k].di.error = alone.err
              /\ /\ alone.t = "Definition"
                 /\ NonBlankKey(line) /\ LeadingSpaces(line) = 0
                 /\ ~Diverting(DiBefore(k))
                 => /\ IsSome(di_ret[k].out)
                    /\ Unwrap(di_ret[k].out).key = LineKey(line)

\* li.next() returned None with MissingSeparator for one line and a
\* Definition for a later one
C15_Witness ==
    \E j, k \in 1..Len(li_ret) :
        /\ j < k
        /\ li_ret[j].out = None /\ li_ret[j].li.error = "MissingSeparator"
        /\ IsSome(li_ret[k].out) /\ Unwrap(li_ret[k].out).t = "Definition"


\* a line with an unquoted key: not the schema separator, and its first
\* character after the leading spaces is no '#', no '"' and no ':' at the
\* very start of the line
UnquotedKey(line) ==
    /\ line # <<":", ":", ":">>
    /\ LeadingSpaces(line) < Len(line)
    /\ line[LeadingSpaces(line) + 1] \notin {"#", "\""}
    /\ line[1] # ":"

\* C16: for an unquoted key, the character right after the first ':' selects
\* the separator: a space gives Normal, '>' gives TextAppend, '=' gives
\* TextValue and any other character gives InvalidSeparator; the key of the
\* Definition is the text before that ':' and its value the text after the
\* two characters of the separator.
C16_UnquotedSeparator ==
    LET ll == SplitOn(docs[1], "\n")
    IN
    \A k \in LiCalls :
        LET line == ll[k]
            colon == Find(line, ":")
        IN  UnquotedKey(line) /\ colon > 0 /\ colon < Len(line) =>
                IF line[colon + 1] \in {" ", ">", "="}
                THEN li_ret[k].out =
                        Some(LineOk("Definition", Take(line, colon - 1),
                                    SeparatorOf(line, colon), Skip(line, colon + 1)))
                ELSE /\ li_ret[k].out = None
                     /\ li_ret[k].li.error = "InvalidSeparator"

\* the line a:>a was returned as the Definition of a with TextAppend and value a
C16_Witness ==
    LET ll == SplitOn(docs[1], "\n")
    IN
    /\ Len(li_ret) > 0
    /\ ll[1] = Chars("a:>a")
    /\ li_ret[1].out = Some(LineOk("Definition", Chars("a"), "TextAppend", Chars("a")))


\* a line of a quoted key without quotes inside it, ended by the key's ':'
QuotedKeyOnly(line) ==
    /\ Len(line) >= 4
    /\ line[1] = "\"" /\ line[Len(line) - 1] = "\"" /\ line[Len(line)] = ":"
    /\ \A i \in 2..(Len(line) - 2) : line[i] # "\""

QuotedKey(line) ==
    /\ LeadingSpaces(line) < Len(line)
    /\ line[LeadingSpaces(line) + 1] = "\""

\* the quotes of a line before position p
QuotesBefore(line, p) == Cardinality({i \in 1..(p - 1) : line[i] = "\""})

\* the positions of a line that hold no quote and follow an even number of quotes
AfterEven(line) ==
    {p \in (LeadingSpaces(line) + 2)..Len(line) :
        line[p] # "\"" /\ QuotesBefore(line, p) % 2 = 0}

\* the first of them
FirstAfterEven(line) == CHOOSE p \in AfterEven(line) : \A q \in AfterEven(line) : p <= q

\* what li.next() returns, and the error it leaves, for a line whose key the
\* ':' at position colon ended
KeyEndedAt(line, colon) ==
    IF colon = Len(line)
    THEN <<Some(LineOk("Definition", Take(line, colon - 1), "Normal", <<>>)), "none">>
    ELSE IF line[colon + 1] \in {" ", ">", "="}
    THEN <<Some(LineOk("Definition", Take(line, colon - 1), SeparatorOf(line, colon),
                       Skip(line, colon + 1))), "none">>
    ELSE <<None, "InvalidSeparator">>

\* C18 as claimed: a quoted key is ended by the first ':' that directly
\* follows an even number of quotes, a key of just two quotes included; a ':'
\* after an odd number of quotes belongs to the key, and any other character
\* than a quote or ':' after an even number of quotes is InvalidSeparator.
C18_QuotedKey ==
    LET ll == SplitOn(docs[1], "\n")
    IN
    \A k \in LiCalls :
        LET line == ll[k]
        IN  QuotedKey(line) /\ AfterEven(line) # {} =>
                <<li_ret[k].out, li_ret[k].li.error>> =
                    IF line[FirstAfterEven(line)] = ":"
                    THEN KeyEndedAt(line, FirstAfterEven(line))
                    ELSE <<None, "InvalidSeparator">>

\* C18 amended: as claimed, except that the ':' after a key of just two
\* quotes does not end the key but is InvalidSeparator.
C18_QuotedKeyNotBlank ==
    LET ll == SplitOn(docs[1], "\n")
    IN
    \A k \in LiCalls :
        LET line == ll[k]
        IN  QuotedKey(line) /\ AfterEven(line) # {} =>
                <<li_ret[k].out, li_ret[k].li.error>> =
                    IF /\ line[FirstAfterEven(line)] = ":"
                       /\ FirstAfterEven(line) > LeadingSpaces(line) + 3
                    THEN KeyEndedAt(line, FirstAfterEven(line))
                    ELSE <<None, "InvalidSeparator">>

\* the line ":": was returned as the Definition of the key ":" in quotes:
\* its first ':' followed one quote, its second ':' followed two
C18_Witness ==
    LET ll == SplitOn(docs[1], "\n")
    IN
    /\ Len(li_ret) > 0
    /\ ll[1] = <<"\"", ":", "\"", ":">>
    /\ li_ret[1].out = Some(LineOk("Definition", <<"\"", ":", "\"">>, "Normal", <<>>))


\* the number of lines consumed by the first k calls of di.next()
DiThrough(k) ==
    IF k = 0 THEN 0 ELSE Linefeeds(docs[2]) - Linefeeds(di_ret[k].di.lines.input)

\* the schema separators among the lines before line i of the DefIter's input
SeparatorsBefore(dl, i) ==
    Cardinality({j \in 1..(i - 1) : dl[j] = <<":", ":", ":">>})

\* the schema separators call k of di.next() consumed, as line numbers
SeparatorsOf(dl, k) ==
    {i \in (DiThrough(k - 1) + 1)..DiThrough(k) : dl[i] = <<":", ":", ":">>}

\* C19: the first ':::' met before any Definition was returned opens a
\* schema, the second one met before any Definition was returned closes it,
\* and every other ':::' ends the call of di.next() that meets it with None
\* and UnexpectedSchemaSeparator.
C19_SchemaSeparator ==
    LET dl == Lines(docs[2])
    IN
    \A k \in 1..Len(di_ret) : \A i \in SeparatorsOf(dl, k) :
        IF Emitted(k) # {} \/ SeparatorsBefore(dl, i) >= 2
        THEN /\ i = DiThrough(k)
             /\ di_ret[k].out = None
             /\ di_ret[k].di.error = "UnexpectedSchemaSeparator"
        ELSE /\ i = DiThrough(k) => di_ret[k].di.error = "none"
             /\ IsSome(di_ret[k].di.schema)
             /\ Unwrap(di_ret[k].di.schema).finished
                   = (SeparatorsBefore(dl, i) = 1 \/ SeparatorsOf(dl, k) # {i})

\* as in test::def_iter: a schema with a node was opened and closed, a
\* Definition was returned, and the ':::' after it was refused
C19_Witness ==
    LET dl == Lines(docs[2])
    IN
    \E k \in 1..Len(di_ret) :
        /\ Emitted(k) # {}
        /\ SeparatorsOf(dl, k) # {} /\ SeparatorsBefore(dl, DiThrough(k)) = 2
        /\ di_ret[k].di.error = "UnexpectedSchemaSeparator"
        /\ IsSome(di_ret[k].di.schema)
        /\ Unwrap(di_ret[k].di.schema).finished
        /\ Len(Unwrap(di_ret[k].di.schema).nodes) > 0


\* line i, consumed by call k of di.next(), lies after the ':::' that opened
\* a schema and before any ':::' that closes it
InSchema(dl, i, k) == Emitted(k) = {} /\ SeparatorsBefore(dl, i) = 1

\* the lines call k of di.next() consumed that spell a definition
DefinitionsOf(dl, k) ==
    {i \in (DiThrough(k - 1) + 1)..DiThrough(k) : NonBlankKey(dl[i])}

\* C20: di.next() never returns the Definition of a line that lies between
\* the opening and the closing ':::'; a definition line that lies elsewhere,
\* after the closing ':::' in particular, ends its call of di.next() with its
\* Definition or with an error, and the schema holds no more nodes than there
\* are definition lines between the opening and the closing ':::'.
C20_SchemaLines ==
    LET dl == Lines(docs[2])
    IN
    \A k \in 1..Len(di_ret) :
        /\ IsSome(di_ret[k].out) => ~InSchema(dl, DiThrough(k), k)
        /\ \A i \in DefinitionsOf(dl, k) :
              ~InSchema(dl, i, k) =>
                 /\ i = DiThrough(k)
                 /\ \/ di_ret[k].di.error # "none" /\ di_ret[k].out = None
                    \/ /\ IsSome(di_ret[k].out)
                       /\ Unwrap(di_ret[k].out).key = LineKey(dl[i])
        /\ IsSome(di_ret[k].di.schema) =>
              Len(Unwrap(di_ret[k].di.schema).nodes)
                 <= Cardinality({i \in 1..DiThrough(k) :
                                    /\ NonBlankKey(dl[i])
                                    /\ SeparatorsBefore(dl, i) = 1})

\* as in test::def_iter: one call of di.next() passed the opening ':::', a
\* line that became a schema node and the closing ':::', and returned the
\* Definition of the line after them
C20_Witness ==
    LET dl == Lines(docs[2])
    IN
    \E k \in 1..Len(di_ret) :
        /\ DiConsumed(k) = 4
        /\ SeparatorsBefore(dl, DiThrough(k)) = 2
        /\ IsSome(di_ret[k].out)
        /\ Unwrap(di_ret[k].out).key = Chars("a")
        /\ Unwrap(di_ret[k].out).value = Chars("text")
        /\ Len(Unwrap(di_ret[k].di.schema).nodes) = 1

(***************************************************************************)
(* parse.rs, datetime.rs and ser.rs mod test: the scalar parsers and       *)
(* quoted_key called on one text                                           *)
(***************************************************************************)

\* characters per integer literal
MaxDigits == 4

\* characters per key
MaxKeyLen == 3

IntAlphabet == {"1", "9", "_", "-", "+", "b", "x"}

\* the integer types a literal is parsed into
IntType(name) == IF name = "i8" THEN I8 ELSE TInt(0, 255)

IntCalls ==
    {Call("int", v, ty) : v \in SeqsUpTo(IntAlphabet, MaxDigits), ty \in {"i8", "u8"}}

DateYears == {Chars("1900"), Chars("2000"), Chars("2019"), Chars("2020"), Chars("20x9")}

DateMonths ==
    {Chars("00"), Chars("01"), Chars("02"), Chars("04"), Chars("12"), Chars("13"),
     Chars("2")}

DateDays ==
    {Chars("00"), Chars("01"), Chars("28"), Chars("29"), Chars("30"), Chars("31"),
     Chars("32"), Chars("1")}

DateCalls ==
    {Call("date", y \o <<s1>> \o m \o <<s2>> \o d \o e, "Date") :
        y \in DateYears, m \in DateMonths, d \in DateDays,
        s1 \in {"-", ":"}, s2 \in {"-", ":"}, e \in {<<>>, <<"0">>}}

KeyAlphabet == {"a", " ", "\"", "#", ":", "\t", "U+FF1A"}

KeyCalls == {Call("quoted_key", k, "String") : k \in SeqsUpTo(KeyAlphabet, MaxKeyLen)}

ScalarInit ==
    /\ \E calls \in {IntCalls, DateCalls, KeyCalls} : call \in calls
    /\ ret = <<>>
    /\ li = LineIter_new(<<>>)
    /\ li_ret = <<>>
    /\ di = DefIter_new(<<>>)
    /\ di_ret = <<>>
    /\ docs = <<>>
    /\ shape = ShapeA
    /\ value = None
    /\ ser = Serializer_new(2)
    /\ sctl = <<>>
    /\ outs = <<>>
    /\ mappings = Deserializer_new(<<>>)
    /\ ctl = <<>>
    /\ results = <<>>

\* the call returned r
Return(r) ==
    /\ ret' = <<r>>
    /\ UNCHANGED <<shape, value, ser, sctl, outs, docs, mappings, ctl, results,
                   li, li_ret, di, di_ret, call>>

\* parse::int::<T>(v)
ParseInt ==
    /\ call.fn = "int" /\ ret = <<>>
    /\ Return(int(call.arg, IntType(call.ty)))

\* v.parse::<Date>()
ParseDate ==
    /\ call.fn = "date" /\ ret = <<>>
    /\ Return(Date_new(call.arg))

\* quoted_key(k)
QuoteKey ==
    /\ call.fn = "quoted_key" /\ ret = <<>>
    /\ Return(quoted_key(call.arg))

ScalarNext ==
    \/ ParseInt
    \/ ParseDate
    \/ QuoteKey

ScalarSpec == ScalarInit /\ [][ScalarNext]_vars

(***************************************************************************)
(* Properties of leftover input, of the serializer's layout and of the     *)
(* scalar parsers                                                          *)
(***************************************************************************)

\* a decode has returned and its root record was closed with a definition
\* still held in the lookahead
LeftoverPending ==
    /\ ~Running /\ ~Encoding /\ Len(results) > 0
    /\ mappings.stack = <<>> /\ IsSome(mappings.define)

\* the text of the decoded document that the line iterator has taken
LeftoverRead ==
    Take(docs[Len(results)],
         Len(docs[Len(results)]) - Len(mappings.defs.lines.input))

\* next_key_seed is about to run for the root record, every field of the root
\* is visited or resolved as absent, and the next definition does not
\* continue the root: it is not at the root's depth, or the root has
\* already left its visiting state
RootClosing ==
    /\ Running /\ Len(ctl) = 1 /\ Top.op = "key" /\ Len(mappings.stack) = 1
    /\ all_visited(mappings.stack[1])
    /\ \E p \in {peek(mappings)} :
          /\ p.err = "none" /\ IsSome(p.v)
          /\ \/ mappings.stack[1].state = "Cleanup"
             \/ Unwrap(p.v).indent # 0

Encoded == IsSome(value) /\ Len(outs) >= 1 /\ outs[1].st = "ok"

\* the text to_string returned for the host value, line by line
EncodedLines == Lines(Unwrap(outs[1].val))

\* the line spells `key` at depth 0 and a separator with a value behind it:
\* a nested record under `key` written onto its parent's key line
Collapsed(line, key) ==
    /\ Len(line) > Len(key) + 1
    /\ Take(line, Len(key)) = key
    /\ line[Len(key) + 1] = ":"

\* what the serializer prints for a scalar on the line of its key
Shown(ty, v) ==
    CASE ty.k = "text" -> SplitOn(v, "\n")[1]
      [] ty.k = "int" -> ToDec(v)
      [] ty.k = "bool" -> bool_write(v)
      [] ty.k = "char" -> <<v>>

\* C22: a nested record whose first field is an Optional or a list is never
\* collapsed onto its parent's key line: the parent's key stands alone on
\* its line.  A line that does carry the parent's key and a value carries the
\* value of field number 1 of the nested record, and that field has no
\* modifier.
C22_NoSubstitute ==
    Encoded /\ shape.types[1].k = "rec" =>
        LET ls == EncodedLines
            key == shape.names[1]
            first == shape.types[1].types[1]
        IN  /\ first.k \in {"opt", "list"} => Len(ls) > 0 /\ ls[1] = key \o <<":">>
            /\ \A i \in 1..Len(ls) :
                  Collapsed(ls[i], key) =>
                      /\ first.k \in {"text", "int", "bool", "char"}
                      /\ Skip(ls[i], Len(key) + 2) = Shown(first, Unwrap(value)[1][1])

\* a record whose first field is Some(12) was written: `n:` stands alone and
\* the field follows on its own line
C22_Witness ==
    /\ Encoded /\ shape.types[1].k = "rec"
    /\ shape.types[1].types[1].k = "opt"
    /\ Unwrap(value)[1][1] = Some(12)
    /\ Len(EncodedLines) = 2
    /\ EncodedLines[2] = Chars("  o: 12")

\* serializing v of type ty writes at least one value
RECURSIVE Writes(_, _)
Writes(ty, v) ==
    CASE ty.k = "opt" -> IsSome(v) /\ Writes(ty.of, Unwrap(v))
      [] ty.k = "list" -> \E i \in 1..Len(v) : Writes(ty.of, v[i])
      [] ty.k = "map" -> v # {}
      [] ty.k = "rec" -> \E i \in 1..Len(ty.types) : Writes(ty.types[i], v[i])
      [] OTHER -> TRUE

\* the lines that spell `key` at depth d: the key and a colon behind the
\* indentation of d levels
KeyLines(ls, d, key) ==
    {i \in 1..Len(ls) :
        /\ Len(ls[i]) > 2 * d + Len(key)
        /\ Take(ls[i], 2 * d + Len(key) + 1) = Spaces(2 * d) \o key \o <<":">>}

\* every field of v that is a record has exactly one line with its key at its
\* parent's depth, and the key stands alone there when nothing was written
\* inside the record
RECURSIVE RecordKeyLines(_, _, _, _)
RecordKeyLines(ty, v, d, ls) ==
    \A i \in 1..Len(ty.types) :
        ty.types[i].k = "rec" =>
            /\ Cardinality(KeyLines(ls, d, ty.names[i])) = 1
            /\ ~Writes(ty.types[i], v[i]) =>
                  \A j \in KeyLines(ls, d, ty.names[i]) :
                      ls[j] = Spaces(2 * d) \o ty.names[i] \o <<":">>
            /\ RecordKeyLines(ty.types[i], v[i], d + 1, ls)

\* C23: a nested record closed without any value written inside it gets its
\* key, ':' and a linefeed at its parent's indentation exactly once, and a
\* record in which a value was written has no key line beyond the one its
\* first value was written under.
C23_UnvisitedKey ==
    Encoded => RecordKeyLines(shape, Unwrap(value), 0, EncodedLines)

\* what the serializer prints for a list element, split at its newlines
ElementParts(ty, e) == IF ty.k = "text" THEN SplitOn(e, "\n") ELSE <<Shown(ty, e)>>

\* the TextAppend lines for the parts of an element after its first
AppendLines(parts) ==
    [k \in 1..(Len(parts) - 1) |-> [separator |-> "TextAppend", value |-> parts[k + 1]]]

\* the layout of a list, element by element, as separator and value of each
\* line: an element with a space opens a TextValue line; any other element
\* joins the Normal line before it when that line is still open, or opens a
\* Normal line; the parts after a newline follow on TextAppend lines, after
\* which no line is open
RECURSIVE ListLayout(_, _, _, _)
ListLayout(ty, es, lines, open) ==
    IF Len(es) = 0 THEN lines
    ELSE LET parts == ElementParts(ty, es[1])
         IN  IF ty.k = "text" /\ Find(es[1], " ") > 0
             THEN ListLayout(ty, Tail(es),
                             lines \o <<[separator |-> "TextValue", value |-> parts[1]]>>
                                   \o AppendLines(parts), FALSE)
             ELSE IF open
             THEN ListLayout(ty, Tail(es),
                             [lines EXCEPT ![Len(lines)].value = @ \o <<" ">> \o parts[1]]
                                \o AppendLines(parts), Len(parts) = 1)
             ELSE ListLayout(ty, Tail(es),
                             lines \o <<[separator |-> "Normal", value |-> parts[1]]>>
                                   \o AppendLines(parts), Len(parts) = 1)

\* the text lines of a layout under `key` at depth d: the key on the first
\* line and as many spaces as the key has characters on the others
LayoutLines(layout, d, key) ==
    [k \in 1..Len(layout) |->
        Spaces(2 * d) \o (IF k = 1 THEN key ELSE Spaces(Len(key)))
            \o as_str(layout[k].separator) \o layout[k].value]

\* the list field that R2 and R6 are written with: its depth, key, element
\* type, value and the lines written before it
ListField ==
    IF shape = ShapeR2
    THEN [d |-> 0, key |-> shape.names[1], ty |-> shape.types[1].of,
          v |-> Unwrap(value)[1], before |-> 0]
    ELSE [d |-> 1, key |-> shape.types[1].names[1], ty |-> shape.types[1].types[1].of,
          v |-> Unwrap(value)[1][1], before |-> 1]

\* C24: a list of text or scalar elements is written with each run of
\* consecutive elements free of spaces and newlines joined by single spaces
\* on one Normal line, each element that contains a space alone on a
\* TextValue line, and the parts after an embedded newline on TextAppend
\* lines; the field that follows the list starts the next line.
C24_TextList ==
    Encoded /\ shape \in {ShapeR2, ShapeR6} =>
        LET f == ListField
            expected == LayoutLines(ListLayout(f.ty, f.v, <<>>, FALSE), f.d, f.key)
        IN  /\ Len(EncodedLines) = f.before + Len(expected) + 1
            /\ SubSeq(EncodedLines, f.before + 1, f.before + Len(expected)) = expected

\* two elements without a space were joined on one line
C24_Witness ==
    /\ Encoded /\ shape = ShapeR2
    /\ Unwrap(value)[1] = <<Chars("a"), Chars("a")>>
    /\ EncodedLines[1] = Chars("l: a a")

\* the last line before line i that spells a key of its own
KeyLineBefore(ls, i) ==
    CHOOSE j \in 0..(i - 1) :
        /\ j > 0 => NonBlankKey(ls[j])
        /\ \A k \in (j + 1)..(i - 1) : ~NonBlankKey(ls[k])

\* C25: every line written with a blank key follows a line that spells the
\* key, and its run of spaces is as long as that line's indentation and
\* written key together: the width DefIter::key_len asks of a continuation.
C25_BlankKeyWidth ==
    Encoded =>
        LET ls == EncodedLines
        IN  \A i \in 1..Len(ls) :
                BlankKey(ls[i]) =>
                    /\ KeyLineBefore(ls, i) > 0
                    /\ LeadingSpaces(ls[i]) = Find(ls[KeyLineBefore(ls, i)], ":") - 1

CharContinuation(line) ==
    Len(line) >= 3 /\ Take(line, 3) \in {Chars(" :>"), Chars("c:>")}

\* how many of the lines from index i on continue the field c
RECURSIVE Continuations(_, _)
Continuations(ls, i) ==
    IF i <= Len(ls) /\ CharContinuation(ls[i]) THEN 1 + Continuations(ls, i + 1) ELSE 0

\* the char that the claim gives a field whose line has the value v and is
\* followed by the lines ls, None for ExpectedChar
CharExpected(v, ls) ==
    IF Continuations(ls, 1) = 1 /\ Len(v) = 0 /\ Len(ls[1]) = 3 THEN Some("\n")
    ELSE IF Continuations(ls, 1) = 0 /\ Len(v) = 1 THEN Some(v[1])
    ELSE None

\* deserialize_char is about to run for the field c of struct C, whose
\* definition is the one in the lookahead
CharStep ==
    /\ Running /\ Top.op = "de" /\ Top.ty.k = "char" /\ shape = ShapeC
    /\ Len(mappings.stack) = 1 /\ mappings.stack[1].state = "Visit"
    /\ IsSome(mappings.define) /\ Unwrap(mappings.define).key = Chars("c")

\* C30: decoding a char field gives '\n' exactly when the value on the
\* field's line is empty and exactly one TextAppend continuation follows,
\* itself with an empty value; with any other continuation the result is
\* ExpectedChar; without one the value has to be exactly one character,
\* which is the result.
C30_CharAppend ==
    [][CharStep =>
          LET c == CharExpected(Unwrap(mappings.define).value,
                                Lines(mappings.defs.lines.input))
          IN  IF IsNone(c)
              THEN results' = Append(results, Err("ExpectedChar"))
              ELSE /\ results' = results
                   /\ Len(ctl') = Len(ctl) - 1
                   /\ ctl'[1].op = "key"
                   /\ ctl'[1].vals[ctl[2].idx] = Some(Unwrap(c))]_vars

\* `c:` and one empty continuation were decoded to the linefeed character
C30_Witness ==
    /\ shape = ShapeC /\ ~Running /\ Len(results) = 1
    /\ docs[1] = Chars("c:\n :>\nz: 5\n")
    /\ results[1] = Ok(<<"\n", Some(5)>>)

\* the key has to be quoted: it starts with a space, '"', '#' or any other
\* whitespace, or holds a colon, a control character or a colon homoglyph
NeedsQuotes(k) ==
    \/ Len(k) > 0 /\ k[1] \in {" ", "\"", "#", "\t", "\n", "\r"}
    \/ \E i \in 1..Len(k) : k[i] \in {":", "\t", "\n", "\r", "U+FF1A"}

\* the text between two outer quotes read back: each pair of quotes is one
\* quote; None when a quote stands alone
RECURSIVE Undoubled(_)
Undoubled(s) ==
    IF Len(s) = 0 THEN Some(<<>>)
    ELSE IF s[1] = "\""
    THEN IF Len(s) >= 2 /\ s[2] = "\"" /\ IsSome(Undoubled(Skip(s, 2)))
         THEN Some(<<"\"">> \o Unwrap(Undoubled(Skip(s, 2))))
         ELSE None
    ELSE IF IsSome(Undoubled(Tail(s))) THEN Some(<<s[1]>> \o Unwrap(Undoubled(Tail(s))))
    ELSE None

\* C26: quoted_key returns the key between two double quotes, each '"' of the
\* key doubled, exactly when the key starts with a space, '"', '#' or
\* whitespace or contains ':', a control character or a colon homoglyph;
\* any other key is returned unchanged.
C26_QuotedKey ==
    call.fn = "quoted_key" /\ Len(ret) = 1 =>
        IF NeedsQuotes(call.arg)
        THEN /\ Len(ret[1]) >= 2
             /\ ret[1][1] = "\"" /\ ret[1][Len(ret[1])] = "\""
             /\ Undoubled(SubSeq(ret[1], 2, Len(ret[1]) - 1)) = Some(call.arg)
        ELSE ret[1] = call.arg

\* a key with a colon and a quote was wrapped and its quote doubled
C26_Witness ==
    /\ call.fn = "quoted_key" /\ Len(ret) = 1
    /\ call.arg = <<"a", "\"", ":">>
    /\ ret[1] = <<"\"", "a", "\"", "\"", ":", "\"">>

\* the radix a literal selects with its first character
LiteralRadix(v) ==
    IF Len(v) > 0 /\ v[1] = "b" THEN 2
    ELSE IF Len(v) > 0 /\ v[1] = "x" THEN 16
    ELSE 10

\* the digits of a radix, in the order of their values
RadixDigits(radix) == SubSeq(Chars("0123456789abcdef"), 1, radix)

IsRadixDigit(c, radix) == \E k \in 1..radix : RadixDigits(radix)[k] = c

\* the literal without its radix prefix, and then without its sign
LiteralBody(v) == IF LiteralRadix(v) = 10 THEN v ELSE Tail(v)

LiteralDigits(v) ==
    IF Len(LiteralBody(v)) > 0 /\ LiteralBody(v)[1] \in {"-", "+"}
    THEN Tail(LiteralBody(v)) ELSE LiteralBody(v)

\* every underscore of the literal stands between two digits of the radix
UnderscoresBetweenDigits(v) ==
    \A i \in 1..Len(v) :
        v[i] = "_" =>
            /\ i > 1 /\ i < Len(v)
            /\ IsRadixDigit(v[i - 1], LiteralRadix(v))
            /\ IsRadixDigit(v[i + 1], LiteralRadix(v))

\* the literal is a well-formed integer: digits of its radix with underscores
\* between digits only, and a sign only in front of a decimal literal
WellFormedInt(v) ==
    /\ UnderscoresBetweenDigits(v)
    /\ LiteralRadix(v) # 10 => LiteralDigits(v) = LiteralBody(v)
    /\ Len(LiteralDigits(v)) > 0
    /\ \A i \in 1..Len(LiteralDigits(v)) :
          LiteralDigits(v)[i] = "_" \/ IsRadixDigit(LiteralDigits(v)[i], LiteralRadix(v))

\* the number that a run of digits and underscores spells in a radix
RECURSIVE DigitsNumber(_, _, _)
DigitsNumber(s, radix, acc) ==
    IF Len(s) = 0 THEN acc
    ELSE IF s[1] = "_" THEN DigitsNumber(Tail(s), radix, acc)
    ELSE DigitsNumber(Tail(s), radix,
                      acc * radix + (CHOOSE k \in 0..(radix - 1) :
                                        RadixDigits(radix)[k + 1] = s[1]))

\* the number a well-formed literal spells
LiteralNumber(v) ==
    IF Len(v) > 0 /\ v[1] = "-"
    THEN 0 - DigitsNumber(LiteralDigits(v), LiteralRadix(v), 0)
    ELSE DigitsNumber(LiteralDigits(v), LiteralRadix(v), 0)

\* C28: parse::int returns a value only for a literal whose underscores each
\* stand between two digits of the active radix and that has no sign behind
\* a 'b' or 'x' prefix; the value is the number the literal spells and lies
\* within the target type, so a literal that does not fit gives None; a
\* well-formed literal without a minus sign that fits is accepted.
C28_Int ==
    call.fn = "int" /\ Len(ret) = 1 =>
        /\ IsSome(ret[1]) =>
              /\ WellFormedInt(call.arg)
              /\ Unwrap(ret[1]) = LiteralNumber(call.arg)
              /\ Unwrap(ret[1]) >= IntType(call.ty).lo
              /\ Unwrap(ret[1]) <= IntType(call.ty).hi
        /\ (/\ WellFormedInt(call.arg)
            /\ call.ty = "i8" \/ call.arg[1] # "-"
            /\ LiteralNumber(call.arg) >= IntType(call.ty).lo
            /\ LiteralNumber(call.arg) <= IntType(call.ty).hi)
              => ret[1] = Some(LiteralNumber(call.arg))

\* a signed literal with an underscore between two digits was parsed
C28_Witness ==
    /\ call.fn = "int" /\ Len(ret) = 1
    /\ call.arg = Chars("-1_9") /\ call.ty = "i8"
    /\ ret[1] = Some(-19)

\* the number a run of decimal digits spells
RECURSIVE Decimal(_, _)
Decimal(s, acc) ==
    IF Len(s) = 0 THEN acc
    ELSE Decimal(Tail(s), acc * 10 + (CHOOSE k \in 0..9 : Chars("0123456789")[k + 1] = s[1]))

\* the text has the form YYYY-MM-DD
DateForm(s) ==
    /\ Len(s) = 10
    /\ \A i \in 1..10 :
          IF i \in {5, 8} THEN s[i] = "-"
          ELSE \E k \in 1..10 : Chars("0123456789")[k] = s[i]

\* the days of a month of the Gregorian calendar
GregorianDays(y, m) ==
    IF m = 2
    THEN (IF y % 4 = 0 /\ (y % 100 # 0 \/ y % 400 = 0) THEN 29 ELSE 28)
    ELSE IF m \in {4, 6, 9, 11} THEN 30 ELSE 31

\* the date a text of the form YYYY-MM-DD names, if it names one
DateNamed(s) ==
    IF DateForm(s)
    THEN The({IF m >= 1 /\ m <= 12 /\ d >= 1 /\ d <= GregorianDays(y, m)
              THEN Some(<<y, m, d>>) ELSE None :
                 y \in {Decimal(SubSeq(s, 1, 4), 0)},
                 m \in {Decimal(SubSeq(s, 6, 7), 0)},
                 d \in {Decimal(SubSeq(s, 9, 10), 0)}})
    ELSE None

\* C29: Date::new accepts exactly the 10-byte texts YYYY-MM-DD whose month is
\* 1..12 and whose day is 1..the days of that month, February having 29 days
\* iff the year is divisible by 4 and (not by 100 or by 400), and gives the
\* year, month and day so written; every other text is ExpectedDate.
C29_Date ==
    call.fn = "date" /\ Len(ret) = 1 => ret[1] = DateNamed(call.arg)

\* the 29th of February of the year 2000, a leap year by the rule of 400,
\* was accepted
C29_Witness ==
    /\ call.fn = "date" /\ Len(ret) = 1
    /\ call.arg = Chars("2000-02-29")
    /\ ret[1] = Some(<<2000, 2, 29>>)

\* ------------------------------------------------------------------------
\* Properties of the resolver's branches and of the codec's call stacks
\* ------------------------------------------------------------------------

\* the line is a definition of the key t at depth 0 with the separator sep
TextLine(line, sep) ==
    /\ Len(line) >= 3
    /\ line[1] = "t" /\ line[2] = ":" /\ line[3] = sep

\* C31: for the text field t of struct T, a definition `t:=V` that follows
\* a definition of t at the same depth replaces the value read so far: the
\* decode succeeds and t is V.
C31_TextValueReplaces ==
    \A i \in 1..Len(results) :
        shape = ShapeT =>
            \A ls \in {Lines(docs[i])} :
                /\ Len(ls) = 2
                /\ \E sep \in {" ", ">", "="} : TextLine(ls[1], sep)
                /\ TextLine(ls[2], "=")
                => results[i] = Ok(<<Skip(ls[2], 3), None, None>>)

\* next_key_seed is about to run for a derived struct
KeyStep == Running /\ Top.op = "key" /\ Len(mappings.stack) > 0

\* the step handed a field to the visitor and left the branch open
Yielded ==
    /\ Len(mappings'.stack) = Len(mappings.stack)
    /\ Len(ctl') >= 2 /\ ctl'[1].op = "de" /\ ctl'[2].op = "val"

\* the fields of a branch not yet visited, as indices
Unvisited(branch) == {i \in 1..Len(branch.fields) : ~branch.visited[i]}

\* C32: a key step that leaves the branch in Cleanup yields the first
\* declared field not yet visited and marks it, and no other; a key step on
\* a branch in Cleanup with every field visited pops the branch; a branch is
\* popped only with every field visited; while a branch stays open no
\* visited mark is taken back.
C32_CleanupOrder ==
    [][/\ KeyStep =>
            \A b \in {Last(mappings.stack)} :
               /\ Yielded /\ Last(mappings'.stack).state = "Cleanup" =>
                     \E i \in Unvisited(b) :
                        /\ \A j \in Unvisited(b) : i <= j
                        /\ ctl'[2].idx = i
                        /\ Last(mappings'.stack).visited = [b.visited EXCEPT ![i] = TRUE]
               /\ b.state = "Cleanup" /\ Unvisited(b) = {} =>
                     Len(mappings'.stack) = Len(mappings.stack) - 1
               /\ Len(mappings'.stack) < Len(mappings.stack) => Unvisited(b) = {}
       /\ Len(mappings'.stack) = Len(mappings.stack) =>
            \A n \in 1..Len(mappings.stack) :
               \A i \in 1..Len(mappings.stack[n].visited) :
                  mappings.stack[n].visited[i] => mappings'.stack[n].visited[i]]_vars

\* struct T from `t: a`: the branch is in Cleanup and has yielded u and now
\* c, its third field, with every field marked
C32_Witness ==
    /\ shape = ShapeT /\ docs = <<Chars("t: a\n")>>
    /\ Len(ctl) >= 2 /\ ctl[2].op = "val" /\ ctl[2].idx = 3
    /\ Len(mappings.stack) = 1
    /\ mappings.stack[1].state = "Cleanup"
    /\ mappings.stack[1].visited = <<TRUE, TRUE, TRUE>>
    /\ ctl[2].vals = <<Some(Chars("a")), Some(None), None>>

\* a handler that starts by taking a definition's value with get_value (or,
\* for a map, its key line with MappingIter::next) is about to run
ValueStep ==
    /\ Running /\ Top.op = "de"
    /\ \/ Top.ty.k \in {"bool", "int", "char", "map"}
       \/ Top.ty.k = "text" /\ branch_state(mappings) # "Cleanup"

\* C33: the definition a handler consumes as a field value has a depth of at
\* most the number of open branches, and the definition next_key_seed reads
\* a key from has a depth one less than that number.
C33_DepthWithinStack ==
    [][/\ ValueStep =>
            \A p \in {peek(mappings)} :
               p.err = "none" /\ IsSome(p.v)
                  => Unwrap(p.v).indent <= Len(mappings.stack)
       /\ KeyStep /\ Yielded /\ Last(mappings'.stack).state = "Visit" =>
            /\ IsSome(mappings'.define)
            /\ Unwrap(mappings'.define).indent + 1 = Len(mappings'.stack)]_vars

SeparatorChar(line) ==
    IF Find(line, ":") < Len(line) THEN line[Find(line, ":") + 1] ELSE "\n"

\* the line is a definition that spells a key
SpellsKey(line) ==
    /\ Find(line, ":") > 0 /\ Len(LineKey(line)) > 0
    /\ SeparatorChar(line) \in {" ", ">", "="}

\* the declared type of the field that line j of a document for the host
\* type ty names, as a set with at most one element: a field of the root
\* at depth 0, a field of a nested record at depth 1
DeclaredType(ty, ls, j) ==
    IF LeadingSpaces(ls[j]) = 0
    THEN {ty.types[n] : n \in {n \in 1..Len(ty.names) : ty.names[n] = LineKey(ls[j])}}
    ELSE IF LeadingSpaces(ls[j]) = 2
    THEN UNION {{ty.types[n].types[k] :
                    k \in {k \in 1..Len(ty.types[n].names) :
                              ty.types[n].names[k] = LineKey(ls[j])}} :
                n \in {n \in 1..Len(ty.names) :
                          /\ ty.types[n].k = "rec"
                          /\ \E p \in 1..(j - 1) :
                                /\ LeadingSpaces(ls[p]) = 0
                                /\ LineKey(ls[p]) = ty.names[n]
                                /\ \A q \in (p + 1)..(j - 1) : LeadingSpaces(ls[q]) > 0}}
    ELSE {}

\* lines a and b spell the same key at the same depth inside one record,
\* and b is not a text continuation of a
Repeats(ls, a, b) ==
    /\ a < b
    /\ SpellsKey(ls[a]) /\ SpellsKey(ls[b])
    /\ LeadingSpaces(ls[a]) = LeadingSpaces(ls[b])
    /\ LineKey(ls[a]) = LineKey(ls[b])
    /\ \A q \in (a + 1)..(b - 1) : LeadingSpaces(ls[q]) >= LeadingSpaces(ls[a])
    /\ ~(b = a + 1 /\ SeparatorChar(ls[b]) = ">")

\* line a gives a nested record an inline value and line b spells the key
\* of that record's first field beneath it
RepeatsSubstitute(ty, ls, a, b) ==
    /\ a < b
    /\ SpellsKey(ls[a]) /\ SpellsKey(ls[b])
    /\ LeadingSpaces(ls[a]) = 0 /\ LeadingSpaces(ls[b]) = 2
    /\ Len(ls[a]) > Find(ls[a], ":") + 1
    /\ \A q \in (a + 1)..b : LeadingSpaces(ls[q]) > 0
    /\ \E t \in DeclaredType(ty, ls, a) :
          /\ t.k = "rec"
          /\ t.names[1] = LineKey(ls[b])

\* C35: a document in whose definitions (the lines after a schema prelude,
\* if it has one) the key of a declared non-list field appears a
\* second time at the same depth inside one record, or repeats the first
\* field that the record's inline value was substituted for, is never
\* decoded to Ok.
C35_RepeatedKey ==
    \A i \in 1..Len(results) :
        \A ls \in {Lines(Body(docs[i]))} :
            (\E a, b \in 1..Len(ls) :
                /\ \E t \in DeclaredType(shape, ls, b) : t.k # "list"
                /\ Repeats(ls, a, b) \/ RepeatsSubstitute(shape, ls, a, b))
            => results[i].st # "ok"

\* C36: the List modifier set while the list field l of struct R8 was
\* written does not reach the text field t behind it: a one-line text,
\* with or without a space, is written as `t: ` and the text.
C36_ModifierPerField ==
    Encoded /\ shape = ShapeR8 =>
        \A t \in {Unwrap(value)[2]} :
            Find(t, "\n") = 0 =>
                EncodedLines[Len(EncodedLines)] = Chars("t: ") \o t

\* a handler is about to resolve the value of a field that a branch in
\* Cleanup yielded
CleanupValueStep ==
    /\ Running /\ Top.op = "de"
    /\ Len(mappings.stack) > 0
    /\ Last(mappings.stack).state = "Cleanup"

\* C37: resolving the value of an absent field of a branch in Cleanup
\* consumes nothing: the pending lookahead definition and the unread input
\* are the same after the step.
C37_CleanupConsumesNothing ==
    [][CleanupValueStep =>
          /\ mappings'.define = mappings.define
          /\ mappings'.defs.lines.input = mappings.defs.lines.input]_vars

\* what is left to read: the unread input, and the pending definition
\* counted as one more than its value
Remaining(m) ==
    Len(m.defs.lines.input)
        + (IF IsSome(m.define) THEN 1 + Len(Unwrap(m.define).value) ELSE 0)

\* the handler of a list element is about to run
ElementStep == Running /\ Top.op = "de" /\ Len(ctl) >= 2 /\ ctl[2].op = "elemval"

\* C38: decode terminates because its loops make progress: the handler of
\* every list element consumes part of a definition (or fails), and every
\* key of a declared field that next_key_seed hands out consumes part of a
\* definition or marks a field not yet visited.
C38_LoopsConsume ==
    [][/\ ElementStep =>
            \/ Remaining(mappings') < Remaining(mappings)
            \/ results' # results
       /\ KeyStep /\ Yielded /\ ctl'[2].idx > 0 =>
            \/ Remaining(mappings') < Remaining(mappings)
            \/ Cardinality(Unvisited(Last(mappings'.stack)))
                  < Cardinality(Unvisited(Last(mappings.stack)))]_vars

\* the calls in progress that entered a record or a map
RECURSIVE Entered(_, _)
Entered(frames, ops) ==
    IF frames = <<>> THEN 0
    ELSE (IF frames[1].op \in ops THEN 1 ELSE 0) + Entered(Tail(frames), ops)

\* C39: the branch stacks are balanced. While a decode runs its stack holds
\* one branch for every record or map entered and not yet ended, and after a
\* successful decode it is empty; the same holds for the serializer's stack,
\* and the serializer's indent never exceeds the depth of its stack.
C39_StackBalanced ==
    /\ Running =>
         Len(mappings.stack)
            = Entered(ctl, {"key", "val", "mkey", "mkeyval", "mval"})
    /\ ~Running /\ Len(results) > 0 /\ Last(results).st = "ok" =>
         mappings.stack = <<>>
    /\ Encoding => Len(ser.stack) = Entered(sctl, {"fields", "entries"})
    /\ ~Encoding /\ Len(outs) > 0 /\ Last(outs).st = "ok" => ser.stack = <<>>
    /\ ser.indent <= Len(ser.stack)

\* R7 { n: F7 { m: G7 { o: Some(..) } } } was encoded, decoded and encoded
\* again, three branches deep, and both stacks are empty
C39_Witness ==
    /\ shape = ShapeR7 /\ IsSome(value) /\ IsSome(Unwrap(value)[1][1][1])
    /\ ~Running /\ ~Encoding
    /\ Len(outs) = 2 /\ outs[1].st = "ok" /\ outs[2].st = "ok"
    /\ Len(results) = 1 /\ results[1].st = "ok"
    /\ mappings.stack = <<>> /\ ser.stack = <<>>

\* C40: every decode ends with a value or with an Err handed to the caller;
\* none ends in a panic.
C40_NoPanic == \A i \in 1..Len(results) : results[i].st \in {"ok", "err"}

====
